---- MODULE Spec2Model ----
(***************************************************************************)
(* Model of the numpy-js benchmark harness scripts:                        *)
(*   benchmarks/scripts/numpy_benchmark.py  (auto-calibrating benchmark)   *)
(*   benchmarks/scripts/validation.py       (correctness validation)       *)
(*                                                                         *)
(* Python values are tagged records.  A call that can raise returns either *)
(* Ok(v) or Raise(e).  NumPy itself is an external library: an array       *)
(* constructor is modelled by the array it documents (shape, dtype, flat   *)
(* row-major data), and a catalogued operation applied to an environment   *)
(* is the symbolic call term (function, evaluated arguments).              *)
(***************************************************************************)
EXTENDS Integers, Sequences, FiniteSets, TLC

VARIABLES
    \* --- numpy_benchmark.py main (Spec) ---
    stdin,               \* the batch document read from stdin
    timer,               \* what time.perf_counter measures over a timed region
    pc,                  \* position of the benchmark process
    MIN_SAMPLE_TIME_MS,  \* module global
    TARGET_SAMPLES,      \* module global
    specs,               \* main: specs
    spec_index,          \* main: 1-based position of the spec being run
    results,             \* main: results
    stdout,              \* documents written to the result channel
    stderr,              \* lines written to the diagnostic channel
    exit_status,         \* process exit status, -1 while running
    spec_name,           \* run_benchmark: name
    run_arrays,          \* run_benchmark: arrays
    warmup_done,         \* run_benchmark: warmup invocations made
    target_time_ms,      \* calibrate_ops_per_sample: target_time_ms
    cal_ops_per_sample,  \* calibrate_ops_per_sample: ops_per_sample, a Python int (binary digits)
    ops_per_sample,      \* run_benchmark: ops_per_sample
    calibration_runs,    \* calibrate_ops_per_sample: calibration_runs
    sample_times,        \* run_benchmark: sample_times
    total_ops,           \* run_benchmark: total_ops
    cal_rounds,          \* observer: timed calibration rounds run for this spec
    cal_round_ops,       \* observer: invocations in the latest calibration round (binary digits)
    cal_returned,        \* observer: value calibrate_ops_per_sample returned, 0 before
    region_ops,          \* observer: invocations in each timed sampling region
    cal_elapsed_ms,      \* observer: elapsed_ms of the latest calibration round
    phase_log,           \* observer: the phases entered, as [spec, phase], in order
    invoked_with,        \* observer: the environments passed to the spec's invocations
    \* --- materializer / registry comparison (SpecMat) ---
    m_spec,          \* the spec under materialization: [setup, operation]
    m_pc,            \* position in the comparison run
    m_bench_arrays,  \* numpy_benchmark.setup_arrays(setup, operation)
    m_bench_result,  \* numpy_benchmark.execute_operation(operation, arrays)
    m_val_arrays,    \* validation.setup_arrays(setup)
    m_val_call,      \* the operation term validation.run_operation computes
    \* --- validation.py main (SpecVal) ---
    v_stdin,         \* the document read from stdin: [specs]
    v_pc,            \* position of the validation process
    v_specs,         \* main: specs
    v_index,         \* main: 1-based position of the spec being run
    v_results,       \* main: results
    v_stdout,        \* documents written to stdout
    v_stderr,        \* lines written to stderr
    v_exit,          \* process exit status, -1 while running
    \* --- Result Codec (SpecCodec) ---
    c_val,           \* the value handed to serialize_value
    c_pc,            \* position in the round trip
    c_encoded,       \* serialize_value(c_val)
    c_decoded        \* the comparator's decoding of c_encoded

benchVars == <<stdin, timer, pc, MIN_SAMPLE_TIME_MS, TARGET_SAMPLES, specs, spec_index,
               results, stdout, stderr, exit_status, spec_name, run_arrays,
               warmup_done, target_time_ms, cal_ops_per_sample, ops_per_sample,
               calibration_runs,
               sample_times, total_ops, cal_rounds, cal_round_ops, cal_returned,
               region_ops, cal_elapsed_ms, phase_log, invoked_with>>
matVars == <<m_spec, m_pc, m_bench_arrays, m_bench_result, m_val_arrays, m_val_call>>
valVars == <<v_stdin, v_pc, v_specs, v_index, v_results, v_stdout, v_stderr, v_exit>>
codecVars == <<c_val, c_pc, c_encoded, c_decoded>>
vars == <<benchVars, matVars, valVars, codecVars>>

-----------------------------------------------------------------------------
(* Bounds of the input space *)

\* Largest number of dimensions of a setup entry's `shape`.
MaxRank == 2

-----------------------------------------------------------------------------
(* Python values and results *)

Ok(v) == [ok |-> TRUE, v |-> v]
Raise(e) == [ok |-> FALSE, e |-> e]
\* A result slot that no call has filled yet.
Unset == [ok |-> FALSE, e |-> "unset"]

None == [t |-> "None"]
\* A number keeps its value under a field of its own, as a dict does.  The
\* `value` of a setup entry and the elements of an array are such values: a
\* number (an array also holds NaN); the `value` of a JSON null is None.
Scalar(v) == [t |-> "scalar", n |-> v]
TupleV(s) == [t |-> "tuple", v |-> s]
ListV(s) == [t |-> "list", v |-> s]
Bytes(kind, of) == [t |-> "bytes", kind |-> kind, of |-> of]
\* A dict keeps its items under a field of its own: two values of different
\* kinds never share all their field names.
DictV(d) == [t |-> "dict", entries |-> d]

\* dict.get(k, default)
DictGet(d, k, default) == IF k \in DOMAIN d THEN d[k] ELSE default
\* d[k] = v
Put(d, k, v) == (k :> v) @@ d
\* d[k], raising KeyError when k is not a key
Item(d, k) == IF k \in DOMAIN d THEN Ok(d[k]) ELSE Raise("KeyError")
\* the empty dict
EmptyDict == [k \in {} |-> None]

\* One item of a setup mapping, in insertion order.
Entry(key, config) == [key |-> key, config |-> config]

RECURSIVE SeqsUpTo(_, _)
\* Every sequence over S of length at most n.
SeqsUpTo(S, n) ==
    IF n = 0 THEN {<<>>}
    ELSE LET shorter == SeqsUpTo(S, n - 1)
         IN  shorter \cup {Append(q, x) : q \in shorter, x \in S}

Max2(a, b) == IF a >= b THEN a ELSE b
Min2(a, b) == IF a <= b THEN a ELSE b
RECURSIVE SumSeq(_)
SumSeq(q) == IF q = <<>> THEN 0 ELSE Head(q) + SumSeq(Tail(q))

RECURSIVE Prod(_)
\* np.prod(shape); the empty product is 1
Prod(s) == IF s = <<>> THEN 1 ELSE Head(s) * Prod(Tail(s))

-----------------------------------------------------------------------------
(* NumPy array constructors (external library, modelled by their contract) *)

\* Element types NumPy resolves; "bool_" is an alias of "bool".
SupportedDtypes == {"float64", "float32", "int32", "int64", "bool", "bool_"}
CanonDtype(dtype) == IF dtype = "bool_" THEN "bool" ELSE dtype

NDArray(shape, dtype, data, random) ==
    [t |-> "ndarray", shape |-> shape, dtype |-> CanonDtype(dtype),
     data |-> data, random |-> random]

\* A float64 or float32 NaN as an element of an array.
np_nan == [t |-> "nan"]
\* The element NumPy stores for a fill value under a dtype: None is NaN in a
\* float array, False in a bool array and a TypeError in an integer array; a
\* number is its truth value in a bool array.  The numbers of the model are
\* whole and small, and the float and integer dtypes keep such a number.
np_cast(value, dtype) ==
    IF value = None
    THEN IF CanonDtype(dtype) = "bool" THEN Ok(Scalar(0))
         ELSE IF dtype \in {"float64", "float32"} THEN Ok(np_nan)
         ELSE Raise("TypeError")
    ELSE IF CanonDtype(dtype) = "bool"
    THEN Ok(Scalar(IF value.n = 0 THEN 0 ELSE 1))
    ELSE Ok(value)
\* NumPy allocates no array with a negative dimension.
NegativeExtent(shape) == \E i \in 1..Len(shape) : shape[i] < 0

\* np.full(shape, value, dtype=dtype): the dtype is resolved, the array is
\* allocated, the value is cast and copied into it
np_full(shape, value, dtype) ==
    IF dtype \notin SupportedDtypes THEN Raise("TypeError")
    ELSE IF NegativeExtent(shape) THEN Raise("ValueError")
    ELSE LET item == np_cast(value, dtype)
         IN  IF ~item.ok THEN item
             ELSE Ok(NDArray(shape, dtype, [i \in 1..Prod(shape) |-> item.v], FALSE))
\* np.zeros(shape, dtype=dtype)
np_zeros(shape, dtype) == np_full(shape, Scalar(0), dtype)
\* np.ones(shape, dtype=dtype)
np_ones(shape, dtype) == np_full(shape, Scalar(1), dtype)

RECURSIVE ProdExcept(_, _)
\* The product of the extents of s other than those equal to x.
ProdExcept(s, x) ==
    IF s = <<>> THEN 1
    ELSE (IF Head(s) = x THEN 1 ELSE Head(s)) * ProdExcept(Tail(s), x)
\* flat.reshape(shape): one extent may be -1 and is then inferred from the
\* size of flat; the sizes must agree.
ndarray_reshape(flat, shape, dtype) ==
    LET unknown == {i \in 1..Len(shape) : shape[i] = -1}
        known == ProdExcept(shape, -1)
    IN  IF \E i \in 1..Len(shape) : shape[i] < -1 THEN Raise("ValueError")
        ELSE IF Cardinality(unknown) > 1 THEN Raise("ValueError")
        ELSE IF unknown = {}
        THEN IF Prod(shape) # Len(flat) THEN Raise("ValueError")
             ELSE Ok(NDArray(shape, dtype, flat, FALSE))
        ELSE IF known = 0 \/ Len(flat) % known # 0 THEN Raise("ValueError")
        ELSE Ok(NDArray([i \in 1..Len(shape) |->
                            IF shape[i] = -1 THEN Len(flat) \div known ELSE shape[i]],
                        dtype, flat, FALSE))
\* np.arange(0, np.prod(shape), 1, dtype=dtype).reshape(shape): arange is
\* empty for a negative stop and gives bool arrays of at most two elements.
np_arange_reshape(shape, dtype) ==
    IF dtype \notin SupportedDtypes THEN Raise("TypeError")
    ELSE IF CanonDtype(dtype) = "bool" /\ Prod(shape) > 2 THEN Raise("TypeError")
    ELSE ndarray_reshape([i \in 1..Prod(shape) |-> Scalar(i - 1)], shape, dtype)
\* np.random.randn(*shape).astype(dtype): with no dimensions randn returns a
\* Python float, which has no astype; the samples themselves are not fixed by
\* the code, so the array carries no data and is flagged random.
np_randn_astype(shape, dtype) ==
    IF shape = <<>> THEN Raise("AttributeError")
    ELSE IF NegativeExtent(shape) THEN Raise("ValueError")
    ELSE IF dtype \notin SupportedDtypes THEN Raise("TypeError")
    ELSE Ok(NDArray(shape, dtype, <<>>, TRUE))

IsNDArray(v) == v.t = "ndarray"

-----------------------------------------------------------------------------
(* Value Materializer, benchmark path: numpy_benchmark.setup_arrays *)

\* The keys that are materialized as a scalar or a shape tuple.
ScalarKeys == {"n", "axis", "new_shape", "shape", "fill_value", "target_shape"}

\* arrays[key] = r when the constructor returned, the exception otherwise
Store(arrays, key, r) == IF r.ok THEN Ok(Put(arrays, key, r.v)) ELSE r

\* Mutant of setup_arrays_entry: `fill` is consulted before `value`, so the
\* default fill of zeros masks an explicit value.
setup_arrays_entry_fill_first(arrays, key, spec) ==
    IF "shape" \notin DOMAIN spec THEN Raise("KeyError")
    ELSE LET shape == spec["shape"]
             dtype == DictGet(spec, "dtype", "float64")
             fill_type == DictGet(spec, "fill", "zeros")
         IN  IF key \in ScalarKeys
             THEN IF Len(shape) = 1
                  THEN Ok(Put(arrays, key, Scalar(shape[1])))
                  ELSE Ok(Put(arrays, key, TupleV(shape)))
             ELSE IF key = "indices"
             THEN Ok(Put(arrays, key, ListV(shape)))
             ELSE IF fill_type = "zeros"
             THEN Store(arrays, key, np_zeros(shape, dtype))
             ELSE IF fill_type = "ones"
             THEN Store(arrays, key, np_ones(shape, dtype))
             ELSE IF fill_type = "random"
             THEN Store(arrays, key, np_randn_astype(shape, dtype))
             ELSE IF fill_type = "arange"
             THEN Store(arrays, key, np_arange_reshape(shape, dtype))
             ELSE IF "value" \in DOMAIN spec
             THEN Store(arrays, key, np_full(shape, spec["value"], dtype))
             ELSE Ok(arrays)

\* One iteration of the loop over setup.items().
setup_arrays_entry(arrays, key, spec) ==
    IF "shape" \notin DOMAIN spec THEN Raise("KeyError")
    ELSE LET shape == spec["shape"]
             dtype == DictGet(spec, "dtype", "float64")
             fill_type == DictGet(spec, "fill", "zeros")
         IN  IF key \in ScalarKeys
             THEN IF Len(shape) = 1
                  THEN Ok(Put(arrays, key, Scalar(shape[1])))
                  ELSE Ok(Put(arrays, key, TupleV(shape)))
             ELSE IF key = "indices"
             THEN Ok(Put(arrays, key, ListV(shape)))
             ELSE IF "value" \in DOMAIN spec
             THEN Store(arrays, key, np_full(shape, spec["value"], dtype))
             ELSE IF fill_type = "zeros"
             THEN Store(arrays, key, np_zeros(shape, dtype))
             ELSE IF fill_type = "ones"
             THEN Store(arrays, key, np_ones(shape, dtype))
             ELSE IF fill_type = "random"
             THEN Store(arrays, key, np_randn_astype(shape, dtype))
             ELSE IF fill_type = "arange"
             THEN Store(arrays, key, np_arange_reshape(shape, dtype))
             ELSE Ok(arrays)

RECURSIVE setup_arrays_loop(_, _)
\* for key, spec in setup.items(): ... (insertion order)
setup_arrays_loop(items, arrays) ==
    IF items = <<>> THEN Ok(arrays)
    ELSE LET r == setup_arrays_entry(arrays, Head(items).key, Head(items).config)
         IN  IF r.ok THEN setup_arrays_loop(Tail(items), r.v) ELSE r

\* {k: v for k, v in arrays.items() if isinstance(v, np.ndarray)}
NpzArrays(arrays) ==
    DictV([k \in {x \in DOMAIN arrays : IsNDArray(arrays[x])} |-> arrays[k]])

\* The pre-serialization pass for the NPY/NPZ parsing benchmarks.
setup_arrays_preserialize(arrays, operation) ==
    IF operation = "parseNpy" /\ "a" \in DOMAIN arrays
    THEN Put(arrays, "_npyBytes", Bytes("npy", arrays["a"]))
    ELSE IF operation = "serializeNpzSync" /\ "a" \in DOMAIN arrays
    THEN Put(arrays, "_npzArrays", NpzArrays(arrays))
    ELSE IF operation = "parseNpzSync" /\ "a" \in DOMAIN arrays
    THEN Put(arrays, "_npzBytes", Bytes("npz", NpzArrays(arrays)))
    ELSE arrays

\* numpy_benchmark.setup_arrays(setup, operation)
setup_arrays(setup, operation) ==
    LET r == setup_arrays_loop(setup, EmptyDict)
    IN  IF r.ok THEN Ok(setup_arrays_preserialize(r.v, operation)) ELSE r

-----------------------------------------------------------------------------
(* Value Materializer, validation path: validation.setup_arrays *)

\* The dtype name handed to NumPy.
validation_np_dtype(dtype) == IF dtype = "bool" THEN "bool_" ELSE dtype

\* Mutant of validation_setup_arrays_entry: the shape is not looked up before
\* the branch on the key, and an entry without one is skipped.
validation_setup_arrays_entry_skip(arrays, key, config) ==
    IF "shape" \notin DOMAIN config THEN Ok(arrays)
    ELSE LET shape == config["shape"]
             dtype == DictGet(config, "dtype", "float64")
             fill == DictGet(config, "fill", "zeros")
             value == DictGet(config, "value", None)
             np_dtype == IF dtype = "bool" THEN "bool_" ELSE dtype
         IN  IF key \in ScalarKeys
             THEN IF shape = <<>> THEN Raise("IndexError")
                  ELSE IF key \in {"new_shape", "shape", "target_shape"}
                  THEN Ok(Put(arrays, key, ListV(shape)))
                  ELSE Ok(Put(arrays, key, Scalar(shape[1])))
             ELSE IF key = "indices"
             THEN Ok(Put(arrays, key, ListV(shape)))
             ELSE IF value # None
             THEN Store(arrays, key, np_full(shape, value, np_dtype))
             ELSE IF fill = "zeros"
             THEN Store(arrays, key, np_zeros(shape, np_dtype))
             ELSE IF fill = "ones"
             THEN Store(arrays, key, np_ones(shape, np_dtype))
             ELSE IF fill \in {"random", "arange"}
             THEN Store(arrays, key, np_arange_reshape(shape, np_dtype))
             ELSE Ok(arrays)

\* One iteration of the loop over setup_config.items().  config.get("value")
\* is None when the field is absent and when it holds a JSON null: either
\* way the branches on `fill` decide.
validation_setup_arrays_entry(arrays, key, config) ==
    IF "shape" \notin DOMAIN config THEN Raise("KeyError")
    ELSE LET shape == config["shape"]
             dtype == DictGet(config, "dtype", "float64")
             fill == DictGet(config, "fill", "zeros")
             value == DictGet(config, "value", None)
             np_dtype == validation_np_dtype(dtype)
         IN  IF key \in ScalarKeys
             THEN IF shape = <<>> THEN Raise("IndexError")
                  ELSE IF key \in {"new_shape", "shape", "target_shape"}
                  THEN Ok(Put(arrays, key, ListV(shape)))
                  ELSE Ok(Put(arrays, key, Scalar(shape[1])))
             ELSE IF key = "indices"
             THEN Ok(Put(arrays, key, ListV(shape)))
             ELSE IF value # None
             THEN Store(arrays, key, np_full(shape, value, np_dtype))
             ELSE IF fill = "zeros"
             THEN Store(arrays, key, np_zeros(shape, np_dtype))
             ELSE IF fill = "ones"
             THEN Store(arrays, key, np_ones(shape, np_dtype))
             ELSE IF fill \in {"random", "arange"}
             THEN Store(arrays, key, np_arange_reshape(shape, np_dtype))
             ELSE Ok(arrays)

RECURSIVE validation_setup_arrays_loop(_, _)
validation_setup_arrays_loop(items, arrays) ==
    IF items = <<>> THEN Ok(arrays)
    ELSE LET r == validation_setup_arrays_entry(arrays, Head(items).key,
                                                Head(items).config)
         IN  IF r.ok THEN validation_setup_arrays_loop(Tail(items), r.v) ELSE r

\* validation.setup_arrays(setup_config)
validation_setup_arrays(setup_config) ==
    validation_setup_arrays_loop(setup_config, EmptyDict)

-----------------------------------------------------------------------------
(* Operation Registry: the call an operation identifier makes on an          *)
(* environment.  Arguments are evaluated left to right; the first one that   *)
(* raises ends the call.  Spellings NumPy documents as the same function are *)
(* written the same way: np.copy(a) and a.copy() are "copy", np.arange(n) is *)
(* np.arange(0, n), a reduction without `axis` is the reduction with         *)
(* axis=None, and a shape argument n, [n] or (n,) is the tuple (n,).         *)

RECURSIVE FirstRaise(_)
FirstRaise(args) ==
    IF args = <<>> THEN Unset
    ELSE IF ~Head(args).ok THEN Head(args) ELSE FirstRaise(Tail(args))

Call(fn, args) ==
    IF \E i \in 1..Len(args) : ~args[i].ok THEN FirstRaise(args)
    ELSE Ok([t |-> "call", fn |-> fn, args |-> [i \in 1..Len(args) |-> args[i].v]])

\* A literal argument.
Lit(v) == Ok(v)
\* arrays.get(k)
GetArg(arrays, k) == Ok(DictGet(arrays, k, None))
\* A shape argument: an int n and the sequences [n], (n,) name the same shape.
AsShape(v) ==
    IF v.t = "scalar" THEN TupleV(<<v.n>>)
    ELSE IF v.t \in {"list", "tuple"} THEN TupleV(v.v) ELSE v
ShapeArg(r) == IF r.ok THEN Ok(AsShape(r.v)) ELSE r
\* *x in an argument list: x must be iterable
Unpack(r) ==
    IF ~r.ok THEN r
    ELSE IF r.v.t \in {"list", "tuple"} THEN Ok(TupleV(r.v.v))
    ELSE Raise("TypeError")

\* a.<reduction>(axis=arrays.get("axis"))
Reduction(fn, arrays) == Call(fn, <<Item(arrays, "a"), GetArg(arrays, "axis")>>)
\* np.<fn>(arrays["a"])
Unary(fn, arrays) == Call(fn, <<Item(arrays, "a")>>)
\* np.<fn>(arrays["a"], arrays["b"])
Binary(fn, arrays) == Call(fn, <<Item(arrays, "a"), Item(arrays, "b")>>)

\* The operation identifiers numpy_benchmark.execute_operation dispatches on.
BenchmarkOperations ==
    {"zeros", "ones", "empty", "full", "arange", "linspace", "logspace",
     "geomspace", "eye", "identity", "copy", "zeros_like", "ones_like",
     "empty_like", "full_like",
     "add", "subtract", "multiply", "divide", "mod", "floor_divide",
     "reciprocal", "positive",
     "sqrt", "power", "absolute", "negative", "sign",
     "dot", "inner", "outer", "tensordot", "matmul", "trace", "transpose",
     "sum", "mean", "max", "min", "prod", "argmin", "argmax", "var", "std",
     "all", "any",
     "reshape", "flatten", "ravel", "squeeze", "slice",
     "swapaxes", "concatenate", "stack", "vstack", "hstack", "tile", "repeat",
     "broadcast_to", "take",
     "serializeNpy", "parseNpy", "serializeNpzSync", "parseNpzSync"}

\* numpy_benchmark.execute_operation(operation, arrays)
execute_operation(operation, arrays) ==
    CASE operation \in {"zeros", "ones", "empty"} ->
            Call(operation, <<ShapeArg(Item(arrays, "shape"))>>)
      [] operation = "full" ->
            Call("full", <<ShapeArg(Item(arrays, "shape")), Item(arrays, "fill_value")>>)
      [] operation = "arange" ->
            Call("arange", <<Lit(Scalar(0)), Item(arrays, "n")>>)
      [] operation = "linspace" ->
            Call("linspace", <<Lit(Scalar(0)), Lit(Scalar(100)), Item(arrays, "n")>>)
      [] operation = "logspace" ->
            Call("logspace", <<Lit(Scalar(0)), Lit(Scalar(3)), Item(arrays, "n")>>)
      [] operation = "geomspace" ->
            Call("geomspace", <<Lit(Scalar(1)), Lit(Scalar(1000)), Item(arrays, "n")>>)
      [] operation \in {"eye", "identity"} ->
            Call(operation, <<Item(arrays, "n")>>)
      [] operation \in {"copy", "zeros_like", "ones_like", "empty_like"} ->
            Unary(operation, arrays)
      [] operation = "full_like" ->
            Call("full_like", <<Item(arrays, "a"), Lit(Scalar(7))>>)
      [] operation \in {"add", "subtract", "multiply", "divide", "mod",
                        "floor_divide"} ->
            Binary(operation, arrays)
      [] operation \in {"reciprocal", "positive", "sqrt", "absolute",
                        "negative", "sign"} ->
            Unary(operation, arrays)
      [] operation = "power" ->
            Binary("power", arrays)
      [] operation \in {"dot", "inner", "outer", "matmul"} ->
            Binary(operation, arrays)
      [] operation = "tensordot" ->
            Call("tensordot", <<Item(arrays, "a"), Item(arrays, "b"),
                                Ok(DictGet(arrays, "axes", Scalar(2)))>>)
      [] operation \in {"trace", "transpose"} ->
            Unary(operation, arrays)
      [] operation \in {"sum", "mean", "max", "min", "prod", "argmin",
                        "argmax", "var", "std", "all", "any"} ->
            Reduction(operation, arrays)
      [] operation = "reshape" ->
            Call("reshape", <<Item(arrays, "a"), ShapeArg(Item(arrays, "new_shape"))>>)
      [] operation \in {"flatten", "ravel", "squeeze"} ->
            Unary(operation, arrays)
      [] operation = "slice" ->
            Call("getitem", <<Item(arrays, "a"), Lit(ListV(<<100, 100>>))>>)
      [] operation = "swapaxes" ->
            Call("swapaxes", <<Item(arrays, "a"), Lit(Scalar(0)), Lit(Scalar(1))>>)
      [] operation \in {"concatenate", "stack"} ->
            Call(operation, <<Item(arrays, "a"), Item(arrays, "b"), Lit(Scalar(0))>>)
      [] operation \in {"vstack", "hstack"} ->
            Binary(operation, arrays)
      [] operation = "tile" ->
            Call("tile", <<Item(arrays, "a"), Lit(ListV(<<2, 2>>))>>)
      [] operation = "repeat" ->
            Call("repeat", <<Item(arrays, "a"), Lit(Scalar(2))>>)
      [] operation = "broadcast_to" ->
            Call("broadcast_to", <<Item(arrays, "a"),
                                   ShapeArg(Item(arrays, "target_shape"))>>)
      [] operation = "take" ->
            Call("take", <<Item(arrays, "a"), Item(arrays, "indices")>>)
      [] operation = "serializeNpy" ->
            Call("save", <<Item(arrays, "a")>>)
      [] operation = "parseNpy" ->
            Call("load", <<Item(arrays, "_npyBytes")>>)
      [] operation = "serializeNpzSync" ->
            Call("savez", <<Item(arrays, "_npzArrays")>>)
      [] operation = "parseNpzSync" ->
            Call("load", <<Item(arrays, "_npzBytes")>>)
      [] OTHER -> Raise("ValueError")

\* The operation identifiers validation.run_operation dispatches on.
ValidationOperations ==
    {"zeros", "ones", "arange", "linspace", "logspace", "geomspace", "eye",
     "identity", "empty", "full", "copy", "zeros_like",
     "add", "multiply", "mod", "floor_divide", "reciprocal",
     "sqrt", "power", "absolute", "negative", "sign",
     "sin", "cos", "tan", "arctan2", "hypot", "sinh", "cosh", "tanh",
     "dot", "inner", "outer", "matmul", "trace", "transpose",
     "sum", "mean", "max", "min", "prod", "argmin", "argmax", "var", "std",
     "all", "any",
     "reshape", "flatten", "ravel",
     "swapaxes", "concatenate", "stack", "vstack", "hstack", "tile", "repeat",
     "broadcast_to", "take"}

\* arrays.get("b") if "b" in arrays else arrays.get("scalar")
validation_b_or_scalar(arrays) ==
    IF "b" \in DOMAIN arrays THEN arrays["b"] ELSE DictGet(arrays, "scalar", None)

\* An arithmetic call of a with the b-or-scalar operand; NumPy rejects None.
validation_with_operand(fn, arrays) ==
    IF "a" \notin DOMAIN arrays THEN Raise("KeyError")
    ELSE IF validation_b_or_scalar(arrays) = None THEN Raise("TypeError")
    ELSE Call(fn, <<Item(arrays, "a"), Ok(validation_b_or_scalar(arrays))>>)

\* The operation chain of validation.run_operation applied to its environment.
validation_dispatch(operation, arrays) ==
    CASE operation \in {"zeros", "ones"} ->
            Call(operation, <<ShapeArg(Item(arrays, "shape"))>>)
      [] operation = "arange" ->
            Call("arange", <<Lit(Scalar(0)), Item(arrays, "n")>>)
      [] operation = "linspace" ->
            Call("linspace", <<Lit(Scalar(0)), Lit(Scalar(100)), Item(arrays, "n")>>)
      [] operation = "logspace" ->
            Call("logspace", <<Lit(Scalar(0)), Lit(Scalar(3)), Item(arrays, "n")>>)
      [] operation = "geomspace" ->
            Call("geomspace", <<Lit(Scalar(1)), Lit(Scalar(1000)), Item(arrays, "n")>>)
      [] operation \in {"eye", "identity"} ->
            Call(operation, <<Item(arrays, "n")>>)
      [] operation = "empty" ->
            \* np.empty(shape) is computed and replaced by np.zeros(shape)
            Call("zeros", <<ShapeArg(Item(arrays, "shape"))>>)
      [] operation = "full" ->
            Call("full", <<ShapeArg(Item(arrays, "shape")), Item(arrays, "fill_value")>>)
      [] operation \in {"copy", "zeros_like"} ->
            Unary(operation, arrays)
      [] operation \in {"add", "multiply", "mod", "floor_divide"} ->
            validation_with_operand(operation, arrays)
      [] operation \in {"reciprocal", "sqrt", "absolute", "negative", "sign"} ->
            Unary(operation, arrays)
      [] operation = "power" ->
            Call("power", <<Item(arrays, "a"), Lit(Scalar(2))>>)
      [] operation \in {"sin", "cos", "tan", "sinh", "cosh", "tanh"} ->
            Unary(operation, arrays)
      [] operation \in {"arctan2", "hypot"} ->
            Binary(operation, arrays)
      [] operation \in {"dot", "inner", "outer", "matmul"} ->
            Binary(operation, arrays)
      [] operation \in {"trace", "transpose"} ->
            Unary(operation, arrays)
      [] operation = "sum" ->
            Reduction("sum", arrays)
      [] operation \in {"mean", "max", "min", "prod", "argmin", "argmax",
                        "var", "std", "all", "any"} ->
            Call(operation, <<Item(arrays, "a"), Lit(None)>>)
      [] operation = "reshape" ->
            Call("reshape", <<Item(arrays, "a"), Unpack(Item(arrays, "new_shape"))>>)
      [] operation \in {"flatten", "ravel"} ->
            Unary(operation, arrays)
      [] operation = "swapaxes" ->
            Call("swapaxes", <<Item(arrays, "a"), Lit(Scalar(0)), Lit(Scalar(1))>>)
      [] operation \in {"concatenate", "stack"} ->
            Call(operation, <<Item(arrays, "a"), Item(arrays, "b"), Lit(Scalar(0))>>)
      [] operation \in {"vstack", "hstack"} ->
            Binary(operation, arrays)
      [] operation = "tile" ->
            Call("tile", <<Item(arrays, "a"), Lit(ListV(<<2, 2>>))>>)
      [] operation = "repeat" ->
            Call("repeat", <<Item(arrays, "a"), Lit(Scalar(2))>>)
      [] operation = "broadcast_to" ->
            Call("broadcast_to", <<Item(arrays, "a"),
                                   ShapeArg(Item(arrays, "target_shape"))>>)
      [] operation = "take" ->
            Call("take", <<Item(arrays, "a"), Item(arrays, "indices")>>)
      [] OTHER -> Raise("ValueError")

\* validation.run_operation up to the computed result: materialize, then dispatch
validation_run_call(spec) ==
    LET arrays == validation_setup_arrays(spec.setup)
    IN  IF arrays.ok THEN validation_dispatch(spec.operation, arrays.v) ELSE arrays

-----------------------------------------------------------------------------
(* validation.py: evaluation of the computed call, conversion of the result  *)
(* and the Result Codec.  A float is finite, NaN or an infinity with a sign; *)
(* every Python value of a result is a tagged record.                        *)

PyFloat(x) == [t |-> "float", cls |-> "finite", x |-> x]
NaN == [t |-> "float", cls |-> "nan", x |-> 0]
PosInf == [t |-> "float", cls |-> "inf", x |-> 1]
NegInf == [t |-> "float", cls |-> "inf", x |-> -1]
PyInt(n) == [t |-> "int", x |-> n]
PyBool(b) == [t |-> "bool", b |-> b]
PyStr(str) == [t |-> "str", s |-> str]

\* What NumPy returns: an array of float64 items, a float64 scalar, a bool_.
NpArray(shape, items) == [t |-> "ndarray", shape |-> shape, items |-> items]
NpFloating(e) == [t |-> "np.floating", e |-> e]
NpBool(b) == [t |-> "np.bool_", b |-> b]
\* A call whose value is outside the operations evaluated here.
Unevaluated(call) == [t |-> "unevaluated", call |-> call]

\* x % y and x // y on float64 (IEEE: a zero divisor gives NaN or an infinity)
float_mod(x, y) ==
    IF y = 0 THEN NaN
    ELSE IF y > 0 THEN PyFloat(x % y) ELSE PyFloat(-((-x) % (-y)))
float_floor_divide(x, y) ==
    IF y = 0 THEN (IF x > 0 THEN PosInf ELSE IF x < 0 THEN NegInf ELSE NaN)
    ELSE IF y > 0 THEN PyFloat(x \div y) ELSE PyFloat((-x) \div (-y))
Elementwise(fn, x, y) ==
    CASE fn = "add" -> PyFloat(x + y)
      [] fn = "multiply" -> PyFloat(x * y)
      [] fn = "mod" -> float_mod(x, y)
      [] fn = "floor_divide" -> float_floor_divide(x, y)

\* NumPy's broadcasting rule on two shapes, aligned at the last dimension.
Broadcastable(s1, s2) ==
    \A k \in 0..(Min2(Len(s1), Len(s2)) - 1) :
        \/ s1[Len(s1) - k] = s2[Len(s2) - k]
        \/ s1[Len(s1) - k] = 1
        \/ s2[Len(s2) - k] = 1

\* A materialized float64 array whose data the materializer fixed.
IsFloat64Data(v) ==
    /\ v.t = "ndarray" /\ v.dtype = "float64" /\ ~v.random
    /\ \A i \in 1..Len(v.data) : v.data[i].t = "scalar"
\* The numbers of such an array, row-major.
Float64Data(v) == [i \in 1..Len(v.data) |-> v.data[i].n]

\* NumPy's value of a computed call, for the calls the validation inputs make.
np_eval(call) ==
    LET fn == call.fn
        args == call.args
    IN  CASE fn \in {"zeros", "ones"} /\ args[1].t = "tuple" ->
               Ok(NpArray(args[1].v,
                          [i \in 1..Prod(args[1].v) |->
                              PyFloat(IF fn = "ones" THEN 1 ELSE 0)]))
          [] fn = "copy" /\ IsFloat64Data(args[1]) ->
               Ok(NpArray(args[1].shape,
                          [i \in 1..Len(args[1].data) |-> PyFloat(Float64Data(args[1])[i])]))
          [] fn \in {"add", "multiply", "mod", "floor_divide"}
             /\ IsFloat64Data(args[1]) /\ IsFloat64Data(args[2]) ->
               IF args[1].shape = args[2].shape
               THEN Ok(NpArray(args[1].shape,
                               [i \in 1..Len(args[1].data) |->
                                   Elementwise(fn, Float64Data(args[1])[i],
                                               Float64Data(args[2])[i])]))
               ELSE IF ~Broadcastable(args[1].shape, args[2].shape)
               THEN Raise("ValueError")
               ELSE Ok(Unevaluated(call))
          [] fn = "sum" /\ IsFloat64Data(args[1]) /\ args[2] = None ->
               Ok(NpFloating(PyFloat(SumSeq(Float64Data(args[1])))))
          [] fn = "all" /\ IsFloat64Data(args[1]) ->
               Ok(NpBool(\A i \in 1..Len(args[1].data) : Float64Data(args[1])[i] # 0))
          [] fn = "any" /\ IsFloat64Data(args[1]) ->
               Ok(NpBool(\E i \in 1..Len(args[1].data) : Float64Data(args[1])[i] # 0))
          [] OTHER -> Ok(Unevaluated(call))

RECURSIVE tolist(_, _)
\* ndarray.tolist(): nested lists, one level per dimension, row-major; an
\* array without dimensions gives its one item.
tolist(items, shape) ==
    IF shape = <<>> THEN items[1]
    ELSE LET rest == Tail(shape)
             sz == Prod(rest)
         IN  ListV([k \in 1..Head(shape) |->
                       tolist(SubSeq(items, (k - 1) * sz + 1, k * sz), rest)])

\* run_operation: conversion of the result to a JSON-serializable value
run_operation_convert(result) ==
    IF result.t = "ndarray"
    THEN DictV([shape |-> TupleV([i \in 1..Len(result.shape) |-> PyInt(result.shape[i])]),
                data |-> tolist(result.items, result.shape)])
    ELSE IF result.t = "np.floating" THEN result.e
    ELSE IF result.t = "np.bool_" THEN PyBool(result.b)
    ELSE result

\* validation.run_operation(spec)
run_operation(spec) ==
    LET call == validation_run_call(spec)
        result == np_eval(call.v)
    IN  IF ~call.ok THEN call
        ELSE IF ~result.ok THEN result
        ELSE Ok(run_operation_convert(result.v))

\* Mutant of serialize_value: the sign of an infinity is not looked at.
RECURSIVE serialize_value_unsigned(_)
serialize_value_unsigned(val) ==
    IF val.t = "dict"
    THEN DictV([k \in DOMAIN val.entries |-> serialize_value_unsigned(val.entries[k])])
    ELSE IF val.t \in {"list", "tuple"}
    THEN ListV([i \in 1..Len(val.v) |-> serialize_value_unsigned(val.v[i])])
    ELSE IF val.t = "float"
    THEN IF val.cls = "nan" THEN PyStr("__NaN__")
         ELSE IF val.cls = "inf" THEN PyStr("__Infinity__")
         ELSE val
    ELSE val

RECURSIVE serialize_value(_)
\* validation.serialize_value(val)
serialize_value(val) ==
    IF val.t = "dict"
    THEN DictV([k \in DOMAIN val.entries |-> serialize_value(val.entries[k])])
    ELSE IF val.t \in {"list", "tuple"}
    THEN ListV([i \in 1..Len(val.v) |-> serialize_value(val.v[i])])
    ELSE IF val.t = "float"
    THEN IF val.cls = "nan" THEN PyStr("__NaN__")
         ELSE IF val.cls = "inf"
         THEN (IF val.x > 0 THEN PyStr("__Infinity__") ELSE PyStr("__-Infinity__"))
         ELSE val
    ELSE val

RECURSIVE decode(_)
\* The comparator's decoding of a transported value: the three sentinel
\* strings stand for NaN and the two infinities, applied at every leaf.
decode(w) ==
    IF w.t = "dict" THEN DictV([k \in DOMAIN w.entries |-> decode(w.entries[k])])
    ELSE IF w.t = "list" THEN ListV([i \in 1..Len(w.v) |-> decode(w.v[i])])
    ELSE IF w = PyStr("__NaN__") THEN NaN
    ELSE IF w = PyStr("__Infinity__") THEN PosInf
    ELSE IF w = PyStr("__-Infinity__") THEN NegInf
    ELSE w

\* What main's exception handler does with a failing spec: it formats the
\* spec's name into the diagnostic line, which raises KeyError when the spec
\* has no `name`.
validation_except(spec, e) ==
    IF "name" \in DOMAIN spec
    THEN Ok([kind |-> "Error", text |-> e, name |-> spec["name"]])
    ELSE Raise("KeyError")

-----------------------------------------------------------------------------
(* numpy_benchmark.py: calibration, sampling and the batch driver.           *)
(* Times are exact numbers of milliseconds; a per-operation time is the      *)
(* fraction elapsed / ops_per_sample, kept as numerator and denominator.     *)

\* Module-level defaults of the two globals.
DEFAULT_MIN_SAMPLE_TIME_MS == 100
DEFAULT_TARGET_SAMPLES == 5
\* calibrate_ops_per_sample: max_calibration_runs, max_ops_per_sample
\* Mutant of max_calibration_runs: one more round is allowed.
max_calibration_runs_eleven == 10 + 1
max_calibration_runs == 10
max_ops_per_sample == 100000

\* The default of calibrate_ops_per_sample's target_time_ms parameter: Python
\* evaluates `= MIN_SAMPLE_TIME_MS` once, when the def statement runs, which is
\* before main assigns the global.
calibrate_default_target_time_ms == DEFAULT_MIN_SAMPLE_TIME_MS

\* Python's int is unbounded and the loop's count can pass 2^31 (ten
\* tenfold steps give 10^10): a Python int is kept as the sequence of its
\* binary digits, least significant first, without leading zeros; <<>> is 0.
\* Then(v, F) is F(v) and Then2(v, w, F) is F(v, w), with v and w computed
\* once.
Then(v, F(_)) == CHOOSE out \in {F(y) : y \in {v}} : TRUE
Then2(v, w, F(_, _)) == CHOOSE out \in {F(y, z) : y \in {v}, z \in {w}} : TRUE
Zeros(s) == [i \in 1..s |-> 0]
Norm(b) ==
    Then(b, LAMBDA x :
    Then({i \in 1..Len(x) : x[i] = 1}, LAMBDA ones :
        IF ones = {} THEN <<>>
        ELSE SubSeq(x, 1, CHOOSE m \in ones : \A i \in ones : i <= m)))
Pad(b, n) == Then(b, LAMBDA x : x \o Zeros(n - Len(x)))
\* b * 2^s
Shift(b, s) == Then(b, LAMBDA x : IF x = <<>> THEN <<>> ELSE Zeros(s) \o x)
\* The Python int of a number 0 <= i < 2^31
Big(i) == Norm([k \in 1..31 |-> (i \div (2 ^ (k - 1))) % 2])
RECURSIVE ToInt(_)
\* The number of a Python int below 2^31
ToInt(b) ==
    Then(b, LAMBDA x :
        IF x = <<>> THEN 0
        ELSE IF Len(x) = 1 THEN x[1]
        ELSE ToInt(SubSeq(x, 1, Len(x) \div 2))
             + (2 ^ (Len(x) \div 2)) * ToInt(SubSeq(x, Len(x) \div 2 + 1, Len(x))))
RECURSIVE AddRange(_, _, _, _, _)
\* Digits lo..hi of a + b with carry c in; a and b of one length
AddRange(a, b, lo, hi, c) ==
    IF lo = hi
    THEN [s |-> <<(a[lo] + b[lo] + c) % 2>>, c |-> (a[lo] + b[lo] + c) \div 2]
    ELSE Then((lo + hi) \div 2, LAMBDA mid :
         Then(AddRange(a, b, lo, mid, c), LAMBDA u :
         Then(AddRange(a, b, mid + 1, hi, u.c), LAMBDA v :
              [s |-> u.s \o v.s, c |-> v.c])))
\* a + b
BigAdd(a, b) ==
    Then2(a, b, LAMBDA x, y :
        IF x = <<>> THEN y
        ELSE IF y = <<>> THEN x
        ELSE Then2(Pad(x, Max2(Len(x), Len(y))), Pad(y, Max2(Len(x), Len(y))),
                   LAMBDA u, v :
                       Then(AddRange(u, v, 1, Len(u), 0), LAMBDA r :
                            Norm(r.s \o <<r.c>>))))
RECURSIVE SubRange(_, _, _, _, _)
\* Digits lo..hi of a - b with borrow c in; a and b of one length
SubRange(a, b, lo, hi, c) ==
    IF lo = hi
    THEN [s |-> <<(a[lo] - b[lo] - c + 2) % 2>>,
          c |-> IF a[lo] - b[lo] - c < 0 THEN 1 ELSE 0]
    ELSE Then((lo + hi) \div 2, LAMBDA mid :
         Then(SubRange(a, b, lo, mid, c), LAMBDA u :
         Then(SubRange(a, b, mid + 1, hi, u.c), LAMBDA v :
              [s |-> u.s \o v.s, c |-> v.c])))
\* a - b for a >= b
BigSub(a, b) ==
    Then2(a, b, LAMBDA x, y :
        IF y = <<>> THEN x
        ELSE Then(Pad(y, Len(x)), LAMBDA v :
             Then(SubRange(x, v, 1, Len(x), 0), LAMBDA r : Norm(r.s))))
RECURSIVE MulRange(_, _, _, _)
\* a times the number whose digits are digits lo..hi of t
MulRange(a, t, lo, hi) ==
    IF lo = hi THEN (IF t[lo] = 1 THEN a ELSE <<>>)
    ELSE Then((lo + hi) \div 2, LAMBDA mid :
         Then2(MulRange(a, t, lo, mid), MulRange(a, t, mid + 1, hi), LAMBDA u, v :
               BigAdd(u, Shift(v, mid - lo + 1))))
\* a * b
BigMul(a, b) ==
    Then2(a, b, LAMBDA x, y :
        IF x = <<>> \/ y = <<>> THEN <<>> ELSE MulRange(x, y, 1, Len(y)))
\* a * k for a number 0 <= k < 2^31
BigTimes(a, k) == BigMul(a, Big(k))
\* a < b
BigLess(a, b) ==
    Then2(a, b, LAMBDA x, y :
        \/ Len(x) < Len(y)
        \/ /\ Len(x) = Len(y)
           /\ \E i \in 1..Len(x) : /\ x[i] < y[i]
                                   /\ \A j \in (i + 1)..Len(x) : x[j] = y[j])
BigMax(a, b) == Then2(a, b, LAMBDA x, y : IF BigLess(x, y) THEN y ELSE x)
BigMin(a, b) == Then2(a, b, LAMBDA x, y : IF BigLess(x, y) THEN x ELSE y)
RECURSIVE DivRange(_, _, _, _, _)
\* Long division by e > 0 of digits hi..lo of a, remainder r coming in
DivRange(a, e, r, hi, lo) ==
    IF hi = lo
    THEN Then(IF r = <<>> /\ a[hi] = 0 THEN <<>> ELSE <<a[hi]>> \o r, LAMBDA y :
              IF BigLess(y, e) THEN [q |-> <<0>>, r |-> y]
              ELSE [q |-> <<1>>, r |-> BigSub(y, e)])
    ELSE Then((lo + hi) \div 2, LAMBDA mid :
         Then(DivRange(a, e, r, hi, mid + 1), LAMBDA u :
         Then(DivRange(a, e, u.r, mid, lo), LAMBDA v :
              [q |-> v.q \o u.q, r |-> v.r])))
\* Quotient and remainder of a by e > 0
BigDivMod(a, e) ==
    Then2(a, e, LAMBDA x, y :
        IF x = <<>> THEN [q |-> <<>>, r |-> <<>>]
        ELSE Then(DivRange(x, y, <<>>, Len(x), 1), LAMBDA d :
                  [q |-> Norm(d.q), r |-> d.r]))

\* A Python float that holds a time is kept exactly, as m * 2^-s
\* milliseconds with the smallest s >= 0: [m |-> Python int, s |-> number].
Float(m, s) ==
    Then(m, LAMBDA x :
        IF x = <<>> THEN [m |-> <<>>, s |-> 0]
        ELSE Then(Min2(s, (CHOOSE i \in 1..Len(x) :
                              x[i] = 1 /\ \A j \in 1..(i - 1) : x[j] = 0) - 1),
                  LAMBDA t : [m |-> SubSeq(x, t + 1, Len(x)), s |-> s - t]))
\* Ms(e) is a whole number of milliseconds, Dyadic(hi, lo, s) is
\* (hi * 2^30 + lo) * 2^-s.
Ms(e) == [m |-> Big(e), s |-> 0]
Dyadic(hi, lo, s) == Float(BigAdd(Shift(Big(hi), 30), Big(lo)), s)
\* The whole number of milliseconds of a time with s = 0
WholeMs(e) == ToInt(e.m)
\* float64 keeps 53 binary digits: N rounded to them, ties to even; sticky
\* says that a nonzero fraction follows the digits of N.
Round53(N, sticky) ==
    Then(N, LAMBDA x :
        IF Len(x) <= 53 THEN x
        ELSE Then2(Len(x) - 53, SubSeq(x, Len(x) - 52, Len(x)), LAMBDA s, top :
                 IF /\ x[s] = 1
                    /\ \/ sticky
                       \/ \E i \in 1..(s - 1) : x[i] = 1
                       \/ top[1] = 1
                 THEN Zeros(s) \o BigAdd(top, <<1>>)
                 ELSE Zeros(s) \o top))
\* The float64 of a Python int, as int / float and int * float convert it
Double(N) == Round53(N, FALSE)
\* The float64 nearest to k + r/d (0 < r < d, k of at most 53 digits) is k:
\* r/d is at most half a unit in the last place of k.
RoundsToFloor(k, r, d) ==
    IF k = <<>> THEN FALSE
    ELSE IF Len(k) <= 52 THEN ~BigLess(d, Shift(r, 54 - Len(k)))
    ELSE \/ BigLess(Shift(r, 1), d)
         \/ Shift(r, 1) = d /\ k[1] = 0
\* np.ceil of the float64 quotient k + r/d (0 <= r < d): the quotient is
\* rounded to the nearest float64 first.
CeilOfQuotient(k, r, d) ==
    IF r = <<>> THEN Double(k)
    ELSE IF Len(k) >= 54 THEN Round53(k, TRUE)
    ELSE IF RoundsToFloor(k, r, d) THEN k
    ELSE BigAdd(k, <<1>>)
\* int(np.ceil((ops_per_sample * target_time_ms) / elapsed_ms)): the product
\* of the two ints is exact, the division converts it to float64 and divides
\* in float64
CeilMulDiv(n, t, e) ==
    Then(e, LAMBDA el :
    Then(BigDivMod(Shift(Double(BigTimes(n, t)), el.s), el.m), LAMBDA d :
         CeilOfQuotient(d.q, d.r, el.m)))
\* elapsed_ms >= target_time_ms
AtLeast(e, target) == Then(e, LAMBDA el : ~BigLess(el.m, Shift(Big(target), el.s)))
\* elapsed_ms < target_time_ms / k, the quotient being float64's
LessThanFraction(e, target, k) ==
    Then(e, LAMBDA el :
    Then2(BigDivMod(Shift(Big(target), el.s), Big(k)), Big(k), LAMBDA d, kb :
        IF Len(d.q) >= 54 THEN BigLess(el.m, Round53(d.q, d.r # <<>>))
        ELSE IF d.r = <<>> \/ RoundsToFloor(d.q, d.r, kb) THEN BigLess(el.m, d.q)
        ELSE ~BigLess(d.q, el.m)))

\* Mutant of calibration_step: the last step tries one invocation more
\* instead of extrapolating.
calibration_step_one_more(ops, elapsed_ms, target) ==
    IF AtLeast(elapsed_ms, target)
    THEN [ops |-> ops, brk |-> TRUE]
    ELSE IF LessThanFraction(elapsed_ms, target, 10)
    THEN [ops |-> BigTimes(ops, 10), brk |-> FALSE]
    ELSE IF LessThanFraction(elapsed_ms, target, 2)
    THEN [ops |-> BigTimes(ops, 2), brk |-> FALSE]
    ELSE [ops |-> BigAdd(ops, <<1>>), brk |-> TRUE]

\* Mutant of calibration_step: the half-target test comes before the
\* tenth-target test.
calibration_step_half_first(ops, elapsed_ms, target) ==
    IF AtLeast(elapsed_ms, target)
    THEN [ops |-> ops, brk |-> TRUE]
    ELSE IF LessThanFraction(elapsed_ms, target, 2)
    THEN [ops |-> BigTimes(ops, 2), brk |-> FALSE]
    ELSE [ops |-> BigMax(CeilMulDiv(ops, target, elapsed_ms), BigAdd(ops, <<1>>)),
          brk |-> TRUE]

\* The body of one calibration round after its timed region measured
\* elapsed_ms: the new ops_per_sample, whether the loop breaks.
calibration_step(ops, elapsed_ms, target) ==
    IF AtLeast(elapsed_ms, target)
    THEN [ops |-> ops, brk |-> TRUE]
    ELSE IF LessThanFraction(elapsed_ms, target, 10)
    THEN [ops |-> BigTimes(ops, 10), brk |-> FALSE]
    ELSE IF LessThanFraction(elapsed_ms, target, 2)
    THEN [ops |-> BigTimes(ops, 2), brk |-> FALSE]
    ELSE [ops |-> BigMax(CeilMulDiv(ops, target, elapsed_ms), BigAdd(ops, <<1>>)),
          brk |-> TRUE]

\* Mutant of calibration_return: the cap is ten times higher.
calibration_return_high_cap(ops) == ToInt(BigMin(ops, Big(10 * max_ops_per_sample)))

\* return min(ops_per_sample, max_ops_per_sample)
calibration_return(ops) == ToInt(BigMin(ops, Big(max_ops_per_sample)))

\* What a region of ops invocations measures when every invocation costs
\* c ms: the float64 product ops * c.
FixedElapsed(ops, c) == Then(c, LAMBDA x : Float(Double(BigMul(ops, x.m)), x.s))
RECURSIVE calibrate_loop(_, _, _, _)
\* The while loop over an operation whose every invocation costs c ms.
calibrate_loop(ops, runs, c, target) ==
    IF runs >= max_calibration_runs THEN ops
    ELSE Then(calibration_step(ops, FixedElapsed(ops, c), target), LAMBDA step :
              IF step.brk THEN step.ops
              ELSE calibrate_loop(step.ops, runs + 1, c, target))
\* calibrate_ops_per_sample as a function of the cost and the target
calibrate_ops_per_sample(c, target) ==
    calibration_return(calibrate_loop(Big(1), 0, c, target))

\* The number of timed sampling regions run_benchmark runs for a spec.
sampling_regions(spec, target_samples) == target_samples

Rat(n, d) == [num |-> n, den |-> d]
\* The k-th smallest element of a sequence of integers (1-based).
Kth(q, k) ==
    CHOOSE x \in {q[j] : j \in DOMAIN q} :
        /\ Cardinality({j \in DOMAIN q : q[j] < x}) < k
        /\ Cardinality({j \in DOMAIN q : q[j] <= x}) >= k

\* float(np.std(times_array)), the population standard deviation of the
\* per-operation times e[k] / ops:
\* sqrt(n * sum(e[k]^2) - sum(e[k])^2) / (n * ops), kept as the number under
\* the root and the denominator.
std(elapsed, ops) ==
    [sqrt_num |-> Len(elapsed) * SumSeq([k \in 1..Len(elapsed) |-> elapsed[k] * elapsed[k]])
                  - SumSeq(elapsed) * SumSeq(elapsed),
     den |-> Len(elapsed) * ops]

\* Mutant of reduce_samples: total_ops reports the size of one region.
reduce_samples_one_region(name, elapsed, ops, total, target_samples) ==
    LET n == Len(elapsed)
        sum == SumSeq(elapsed)
    IN  IF n = 0 THEN Raise("ValueError")
        ELSE IF sum = 0 THEN Raise("ZeroDivisionError")
        ELSE Ok([name |-> name,
                 mean_ms |-> Rat(sum, ops * n),
                 median_ms |-> IF n % 2 = 1
                               THEN Rat(Kth(elapsed, (n + 1) \div 2), ops)
                               ELSE Rat(Kth(elapsed, n \div 2)
                                        + Kth(elapsed, n \div 2 + 1), 2 * ops),
                 min_ms |-> Rat(Kth(elapsed, 1), ops),
                 max_ms |-> Rat(Kth(elapsed, n), ops),
                 std_ms |-> std(elapsed, ops),
                 ops_per_sec |-> Rat(1000 * ops * n, sum),
                 total_ops |-> ops,
                 total_samples |-> target_samples])

\* The statistics of run_benchmark over the elapsed times of its regions,
\* each region of `ops` invocations.
\* Raises where the code does: np.min of no samples, 1000.0 / 0.0.
reduce_samples(name, elapsed, ops, total, target_samples) ==
    LET n == Len(elapsed)
        sum == SumSeq(elapsed)
    IN  IF n = 0 THEN Raise("ValueError")
        ELSE IF sum = 0 THEN Raise("ZeroDivisionError")
        ELSE Ok([name |-> name,
                 mean_ms |-> Rat(sum, ops * n),
                 median_ms |-> IF n % 2 = 1
                               THEN Rat(Kth(elapsed, (n + 1) \div 2), ops)
                               ELSE Rat(Kth(elapsed, n \div 2)
                                        + Kth(elapsed, n \div 2 + 1), 2 * ops),
                 min_ms |-> Rat(Kth(elapsed, 1), ops),
                 max_ms |-> Rat(Kth(elapsed, n), ops),
                 std_ms |-> std(elapsed, ops),
                 ops_per_sec |-> Rat(1000 * ops * n, sum),
                 total_ops |-> total,
                 total_samples |-> target_samples])

\* Mutant of main_except_stdout: the handler flushes the reports gathered
\* before the failure.
main_except_stdout_partial(out, partial) == Append(out, partial)

\* What the exception handler of main leaves on the result channel.
main_except_stdout(out, partial) == out

Line(kind, text) == [kind |-> kind, text |-> text]

\* --- inputs ---

\* Largest number of specs in a batch.
MaxBatch == 2

ArrA == Entry("a", [shape |-> <<2, 2>>, fill |-> "ones"])
ArrB == Entry("b", [shape |-> <<2, 2>>, fill |-> "ones"])
BenchSpec(name, operation, setup, warmup) ==
    [name |-> name, operation |-> operation, setup |-> setup, warmup |-> warmup]
\* A spec that also carries the legacy `iterations` count.
WithIterations(spec, n) == ("iterations" :> n) @@ spec

GoodSpecs ==
    {BenchSpec("add_small", "add", <<ArrA, ArrB>>, 1),
     BenchSpec("add_negative_warmup", "add", <<ArrA, ArrB>>, -1),
     WithIterations(BenchSpec("zeros_legacy", "zeros",
                              <<Entry("shape", [shape |-> <<2, 3>>])>>, 0), 3)}
BadSpecs ==
    {BenchSpec("unknown_op", "nope", <<ArrA, ArrB>>, 1),
     BenchSpec("no_shape", "add", <<ArrA, Entry("b", [fill |-> "ones"])>>, 1),
     BenchSpec("add_raises_warm", "add", <<ArrA>>, 2),
     BenchSpec("add_raises_cold", "add", <<ArrA>>, 0)}
BenchSpecInputs == GoodSpecs \cup BadSpecs

\* The config objects of a {specs, config} document.
ConfigObjects ==
    {EmptyDict,
     [minSampleTimeMs |-> 50],
     [targetSamples |-> 2],
     [targetSamples |-> 0],
     [minSampleTimeMs |-> 50, targetSamples |-> 1]}

\* The batch documents: a bare list of specs, {specs}, {specs, config}.
Documents(batches) ==
    {[isdict |-> FALSE, doc |-> b] : b \in batches}
    \cup {[isdict |-> TRUE, doc |-> [specs |-> b]] : b \in batches}
    \cup {[isdict |-> TRUE, doc |-> [specs |-> b, config |-> c]] :
             b \in batches, c \in ConfigObjects}

\* The observer's value before any round
NoElapsed == [m |-> <<>>, s |-> -1]
\* A timer under which every invocation costs a fixed number of milliseconds.
FixedCost(c) == [kind |-> "fixed_cost", c |-> Ms(c)]
\* A timer under which every invocation costs a fixed fraction of a
\* millisecond, c a float64.
FineCost(c) == [kind |-> "fixed_cost", c |-> c]
\* A timer that may measure any of ElapsedInputs over any region.
FreeTimer == [kind |-> "free", c |-> Ms(0)]
\* A timer whose large readings make the float64 division of the
\* extrapolation round its quotient.
WideTimer == [kind |-> "wide", c |-> Ms(0)]
CostInputs == {0, 1, 7, 60}
ElapsedInputs == {0, 30, 60, 100}
WideElapsedInputs == {0, 98653561}
\* The float64 costs 9.09090909090909 ms, 0.75 ms and 0.3 ms (the float64
\* 3 / 10, which is below three tenths)
FineCostInputs ==
    {Dyadic(2383127, 292838679, 48), Dyadic(0, 3, 2), Dyadic(5033164, 858993459, 54)}

\* The elapsed times a timed region of n invocations (a Python int) can
\* measure
Measure(n) ==
    IF timer.kind = "free" THEN {Ms(e) : e \in ElapsedInputs}
    ELSE IF timer.kind = "wide" THEN {Ms(e) : e \in WideElapsedInputs}
    ELSE {FixedElapsed(n, timer.c)}

BenchIdleLocals ==
    /\ spec_name = ""
    /\ run_arrays = Unset
    /\ warmup_done = 0
    /\ target_time_ms = 0
    /\ cal_ops_per_sample = <<>>
    /\ ops_per_sample = 0
    /\ calibration_runs = 0
    /\ sample_times = <<>>
    /\ total_ops = 0
    /\ cal_rounds = 0
    /\ cal_round_ops = <<>>
    /\ cal_returned = 0
    /\ region_ops = <<>>
    /\ cal_elapsed_ms = NoElapsed
    /\ phase_log = <<>>
    /\ invoked_with = {}

BenchStart ==
    /\ pc = "read"
    /\ MIN_SAMPLE_TIME_MS = DEFAULT_MIN_SAMPLE_TIME_MS
    /\ TARGET_SAMPLES = DEFAULT_TARGET_SAMPLES
    /\ specs = <<>>
    /\ spec_index = 0
    /\ results = <<>>
    /\ stdout = <<>>
    /\ stderr = <<>>
    /\ exit_status = -1
    /\ BenchIdleLocals

\* Batches of up to MaxBatch specs under fixed-cost timers, and every single
\* good spec under the free timer with a configured number of samples (the
\* free timer's sample sets grow as |ElapsedInputs|^targetSamples).
BenchInit ==
    /\ \/ /\ stdin \in Documents(SeqsUpTo(BenchSpecInputs, MaxBatch))
          /\ timer \in {FixedCost(c) : c \in CostInputs}
       \/ /\ stdin \in {d \in Documents({<<g>> : g \in GoodSpecs}) :
                          /\ d.isdict
                          /\ "config" \in DOMAIN d.doc
                          /\ "targetSamples" \in DOMAIN d.doc["config"]}
          /\ timer = FreeTimer
    /\ BenchStart

\* The benchmark process is not part of the run.
BenchIdle ==
    /\ stdin = [isdict |-> FALSE, doc |-> <<>>]
    /\ timer = FreeTimer
    /\ pc = "idle"
    /\ MIN_SAMPLE_TIME_MS = DEFAULT_MIN_SAMPLE_TIME_MS
    /\ TARGET_SAMPLES = DEFAULT_TARGET_SAMPLES
    /\ specs = <<>>
    /\ spec_index = 0
    /\ results = <<>>
    /\ stdout = <<>>
    /\ stderr = <<>>
    /\ exit_status = -1
    /\ BenchIdleLocals

\* --- actions ---

runLocals == <<spec_name, run_arrays, warmup_done, target_time_ms,
               cal_ops_per_sample, ops_per_sample,
               calibration_runs, sample_times, total_ops, cal_rounds,
               cal_round_ops, cal_returned, region_ops, cal_elapsed_ms,
               phase_log, invoked_with>>
globals == <<MIN_SAMPLE_TIME_MS, TARGET_SAMPLES>>

\* The phase `phase` of spec number k is entered or continued.
LogPhase(log, k, phase) ==
    IF log # <<>> /\ log[Len(log)] = [spec |-> k, phase |-> phase] THEN log
    ELSE Append(log, [spec |-> k, phase |-> phase])

\* Mutant of warmup_invocations: one more warmup invocation is made.
warmup_invocations_one_more(spec) == Max2(0, spec["warmup"]) + 1

\* range(warmup): the number of warmup invocations of a spec, none when
\* warmup is negative
warmup_invocations(spec) == Max2(0, spec["warmup"])

\* except Exception as e: print the error to stderr, sys.exit(1)
Abort(e) ==
    /\ stdout' = main_except_stdout(stdout, results)
    /\ stderr' = Append(stderr, Line("Error", e))
    /\ exit_status' = 1
    /\ pc' = "exit"

\* main: read the document, take the config, print the banner
MainRead ==
    /\ UNCHANGED <<matVars, valVars, codecVars>>
    /\ pc = "read"
    /\ IF stdin.isdict /\ "specs" \in DOMAIN stdin.doc
       THEN LET config == DictGet(stdin.doc, "config", EmptyDict)
            IN  /\ specs' = stdin.doc["specs"]
                /\ MIN_SAMPLE_TIME_MS' =
                       DictGet(config, "minSampleTimeMs", MIN_SAMPLE_TIME_MS)
                /\ TARGET_SAMPLES' = DictGet(config, "targetSamples", TARGET_SAMPLES)
       ELSE /\ specs' = stdin.doc
            /\ UNCHANGED globals
    /\ results' = <<>>
    /\ spec_index' = 1
    /\ stderr' = Append(stderr, Line("banner", ""))
    /\ pc' = "loop"
    /\ UNCHANGED <<stdin, timer, stdout, exit_status, runLocals>>

\* run_benchmark(spec): read the spec and materialize its environment
RunSetup ==
    /\ UNCHANGED <<matVars, valVars, codecVars>>
    /\ pc = "loop"
    /\ spec_index <= Len(specs)
    /\ LET spec == specs[spec_index]
           r == setup_arrays(spec["setup"], spec["operation"])
       IN  /\ spec_name' = spec["name"]
           /\ run_arrays' = r
           /\ IF r.ok
              THEN /\ pc' = "warmup"
                   /\ UNCHANGED <<stdout, stderr, exit_status>>
              ELSE Abort(r.e)
    /\ warmup_done' = 0
    /\ target_time_ms' = 0
    /\ cal_ops_per_sample' = <<>>
    /\ ops_per_sample' = 0
    /\ calibration_runs' = 0
    /\ sample_times' = <<>>
    /\ total_ops' = 0
    /\ cal_rounds' = 0
    /\ cal_round_ops' = <<>>
    /\ cal_returned' = 0
    /\ region_ops' = <<>>
    /\ cal_elapsed_ms' = NoElapsed
    /\ phase_log' = Append(phase_log, [spec |-> spec_index, phase |-> "materialize"])
    /\ invoked_with' = {}
    /\ UNCHANGED <<stdin, timer, globals, specs, spec_index, results>>

\* The outcome of every invocation of the spec's operation on its environment.
Invocation == execute_operation(specs[spec_index]["operation"], run_arrays.v)

\* for _ in range(warmup): execute_operation(operation, arrays)
Warmup ==
    /\ UNCHANGED <<matVars, valVars, codecVars>>
    /\ pc = "warmup"
    /\ warmup_done < warmup_invocations(specs[spec_index])
    /\ phase_log' = LogPhase(phase_log, spec_index, "warmup")
    /\ invoked_with' = invoked_with \cup {run_arrays.v}
    /\ IF Invocation.ok
       THEN /\ warmup_done' = warmup_done + 1
            /\ UNCHANGED <<pc, stdout, stderr, exit_status>>
       ELSE /\ Abort(Invocation.e)
            /\ UNCHANGED warmup_done
    /\ UNCHANGED <<stdin, timer, globals, specs, spec_index, results, spec_name, run_arrays,
                   target_time_ms, cal_ops_per_sample, ops_per_sample,
                   calibration_runs,
                   sample_times, total_ops, cal_rounds, cal_round_ops,
                   cal_returned, region_ops, cal_elapsed_ms>>

\* ops_per_sample = calibrate_ops_per_sample(operation, arrays), reached when
\* range(warmup) is exhausted: the call and the function's first three
\* assignments
CalibrateEnter ==
    /\ UNCHANGED <<matVars, valVars, codecVars>>
    /\ pc = "warmup"
    /\ warmup_done >= warmup_invocations(specs[spec_index])
    /\ phase_log' = LogPhase(phase_log, spec_index, "calibrate")
    /\ target_time_ms' = calibrate_default_target_time_ms
    /\ cal_ops_per_sample' = Big(1)
    /\ calibration_runs' = 0
    /\ pc' = "calibrate"
    /\ UNCHANGED <<stdin, timer, globals, specs, spec_index, results, stdout, stderr,
                   exit_status, spec_name, run_arrays, warmup_done, ops_per_sample,
                   sample_times,
                   total_ops, cal_rounds, cal_round_ops, cal_returned, region_ops,
                   cal_elapsed_ms, invoked_with>>

\* One pass of the while loop: a timed region of ops_per_sample invocations,
\* then the adjustment of ops_per_sample
CalibrateRound ==
    /\ UNCHANGED <<matVars, valVars, codecVars>>
    /\ pc = "calibrate"
    /\ calibration_runs < max_calibration_runs
    /\ invoked_with' = invoked_with \cup {run_arrays.v}
    /\ IF ~Invocation.ok
       THEN /\ Abort(Invocation.e)
            /\ UNCHANGED <<cal_ops_per_sample, calibration_runs, cal_rounds,
                           cal_round_ops, cal_elapsed_ms>>
       ELSE \E elapsed_ms \in Measure(cal_ops_per_sample) :
               LET step == calibration_step(cal_ops_per_sample, elapsed_ms,
                                            target_time_ms)
               IN  /\ cal_ops_per_sample' = step.ops
                   /\ cal_rounds' = cal_rounds + 1
                   /\ cal_round_ops' = cal_ops_per_sample
                   /\ cal_elapsed_ms' = elapsed_ms
                   /\ IF step.brk
                      THEN /\ pc' = "calibrate_exit"
                           /\ UNCHANGED calibration_runs
                      ELSE /\ pc' = "calibrate"
                           /\ calibration_runs' = calibration_runs + 1
                   /\ UNCHANGED <<stdout, stderr, exit_status>>
    /\ UNCHANGED <<stdin, timer, globals, specs, spec_index, results, spec_name, run_arrays,
                   warmup_done, target_time_ms, ops_per_sample, sample_times,
                   total_ops, cal_returned, region_ops, phase_log>>

\* The loop is left by break or by its condition; the clamped count is
\* returned to run_benchmark
CalibrateReturn ==
    /\ UNCHANGED <<matVars, valVars, codecVars>>
    /\ \/ pc = "calibrate_exit"
       \/ pc = "calibrate" /\ calibration_runs >= max_calibration_runs
    /\ ops_per_sample' = calibration_return(cal_ops_per_sample)
    /\ cal_returned' = calibration_return(cal_ops_per_sample)
    /\ sample_times' = <<>>
    /\ total_ops' = 0
    /\ pc' = "sample"
    /\ UNCHANGED <<stdin, timer, globals, specs, spec_index, results, stdout, stderr,
                   exit_status, spec_name, run_arrays, warmup_done, target_time_ms,
                   cal_ops_per_sample, calibration_runs, cal_rounds, cal_round_ops,
                   region_ops, cal_elapsed_ms, phase_log, invoked_with>>

\* One pass of `for _ in range(TARGET_SAMPLES)`: a timed region of
\* ops_per_sample invocations, one per-operation time appended
Sample ==
    /\ UNCHANGED <<matVars, valVars, codecVars>>
    /\ pc = "sample"
    /\ Len(sample_times) < sampling_regions(specs[spec_index], TARGET_SAMPLES)
    /\ \E elapsed_ms \in Measure(Big(ops_per_sample)) :
          sample_times' = Append(sample_times,
                                 Rat(WholeMs(elapsed_ms), ops_per_sample))
    /\ total_ops' = total_ops + ops_per_sample
    /\ region_ops' = Append(region_ops, ops_per_sample)
    /\ phase_log' = LogPhase(phase_log, spec_index, "sample")
    /\ invoked_with' = invoked_with \cup {run_arrays.v}
    /\ UNCHANGED <<stdin, timer, pc, globals, specs, spec_index, results, stdout, stderr,
                   exit_status, spec_name, run_arrays, warmup_done, target_time_ms,
                   cal_ops_per_sample, ops_per_sample, calibration_runs, cal_rounds,
                   cal_round_ops, cal_returned, cal_elapsed_ms>>

\* The statistics, the returned report, and main's results.append(result)
Reduce ==
    /\ UNCHANGED <<matVars, valVars, codecVars>>
    /\ pc = "sample"
    /\ Len(sample_times) >= sampling_regions(specs[spec_index], TARGET_SAMPLES)
    /\ LET r == reduce_samples(spec_name,
                               [k \in 1..Len(sample_times) |-> sample_times[k].num],
                               ops_per_sample, total_ops, TARGET_SAMPLES)
       IN  IF r.ok
           THEN /\ results' = Append(results, r.v)
                /\ pc' = "progress"
                /\ UNCHANGED <<stdout, stderr, exit_status>>
           ELSE /\ Abort(r.e)
                /\ UNCHANGED results
    /\ UNCHANGED <<stdin, timer, globals, specs, spec_index, runLocals>>

\* main: the progress line of the spec, then the next spec
Progress ==
    /\ UNCHANGED <<matVars, valVars, codecVars>>
    /\ pc = "progress"
    /\ stderr' = Append(stderr, Line("progress", specs[spec_index]["name"]))
    /\ spec_index' = spec_index + 1
    /\ pc' = "loop"
    /\ UNCHANGED <<stdin, timer, globals, specs, results, stdout, exit_status,
                   runLocals>>

\* main: print(json.dumps(results, indent=2)) after the last spec
MainEmit ==
    /\ UNCHANGED <<matVars, valVars, codecVars>>
    /\ pc = "loop"
    /\ spec_index > Len(specs)
    /\ stdout' = Append(stdout, results)
    /\ exit_status' = 0
    /\ pc' = "exit"
    /\ UNCHANGED <<stdin, timer, globals, specs, spec_index, results, stderr, runLocals>>

ValIdle ==
    /\ v_stdin = [specs |-> <<>>]
    /\ v_pc = "idle"
    /\ v_specs = <<>>
    /\ v_index = 0
    /\ v_results = <<>>
    /\ v_stdout = <<>>
    /\ v_stderr = <<>>
    /\ v_exit = -1

CodecIdle ==
    /\ c_val = None
    /\ c_pc = "idle"
    /\ c_encoded = None
    /\ c_decoded = None

-----------------------------------------------------------------------------
(* SpecMat: both materializers and both registries run on the same spec *)

Extents == {-1, 2, 3}
ShapeInputs == SeqsUpTo(Extents, MaxRank)
DtypeInputs == {"float64", "int32", "float99"}
FillInputs == {"zeros", "ones", "random", "arange", "eye"}
\* The `value` of an entry: a number or a JSON null.
ValueInputs == {Scalar(0), Scalar(7), None}
ConfigFields == {"shape", "dtype", "fill", "value"}

\* Every SetupEntry over the input sets, each field present or absent.
ConfigInputs ==
    {[f \in D |-> full[f]] :
        full \in [shape : ShapeInputs, dtype : DtypeInputs,
                  fill : FillInputs, value : ValueInputs],
        D \in SUBSET ConfigFields}

KeyInputs == ScalarKeys \cup {"indices", "a", "b"}

\* Setups of one entry: every key with every config.
SingleSetups == {<<Entry(k, c)>> : k \in KeyInputs, c \in ConfigInputs}

Arr(fill) == [shape |-> <<2, 2>>, fill |-> fill]
Shp(shape) == [shape |-> shape]
\* Setups of several entries, as the catalogued operations take them, and
\* setups where a malformed entry comes before or after a well-formed one.
CatalogSetups ==
    {<<>>,
     <<Entry("a", Arr("ones")), Entry("b", Arr("ones"))>>,
     <<Entry("a", Arr("arange")), Entry("axis", Shp(<<0>>))>>,
     <<Entry("a", Arr("arange"))>>,
     <<Entry("a", Arr("ones")), Entry("scalar", [shape |-> <<2, 2>>, value |-> Scalar(7)])>>,
     <<Entry("a", Arr("arange")), Entry("new_shape", Shp(<<4>>))>>,
     <<Entry("a", Arr("arange")), Entry("new_shape", Shp(<<1, 4>>))>>,
     <<Entry("a", Arr("ones")), Entry("target_shape", Shp(<<2, 2, 2>>))>>,
     <<Entry("a", Arr("arange")), Entry("indices", Shp(<<0, 3>>))>>,
     <<Entry("shape", Shp(<<2, 3>>)), Entry("fill_value", Shp(<<7>>))>>,
     <<Entry("shape", Shp(<<5>>))>>,
     <<Entry("n", Shp(<<5>>))>>,
     <<Entry("a", Arr("ones")), Entry("c", [dtype |-> "float64"])>>,
     <<Entry("c", [dtype |-> "float64"]), Entry("a", Arr("ones"))>>,
     <<Entry("a", Arr("ones")), Entry("c", [shape |-> <<2>>, dtype |-> "float99"])>>,
     <<Entry("a", Arr("ones")), Entry("c", [shape |-> <<2>>, fill |-> "eye"])>>}

AllOperations == BenchmarkOperations \cup ValidationOperations \cup {"nope"}
\* The operations run against the one-entry setups.
ProbeOperations == {"copy", "zeros", "parseNpy", "serializeNpzSync", "nope"}

MatSpecInputs ==
    {[setup |-> s, operation |-> o] : s \in SingleSetups, o \in ProbeOperations}
    \cup {[setup |-> s, operation |-> o] : s \in CatalogSetups, o \in AllOperations}

InitMat ==
    /\ m_spec \in MatSpecInputs
    /\ m_pc = "start"
    /\ m_bench_arrays = Unset
    /\ m_bench_result = Unset
    /\ m_val_arrays = Unset
    /\ m_val_call = Unset
    /\ BenchIdle /\ ValIdle /\ CodecIdle

\* run_benchmark: arrays = setup_arrays(setup, operation)
MatBenchSetup ==
    /\ m_pc = "start"
    /\ m_bench_arrays' = setup_arrays(m_spec.setup, m_spec.operation)
    /\ m_pc' = "bench_setup_done"
    /\ UNCHANGED <<m_spec, m_bench_result, m_val_arrays, m_val_call>>
    /\ UNCHANGED <<benchVars, valVars, codecVars>>

\* run_benchmark: execute_operation(operation, arrays), reached only when
\* setup_arrays returned
MatBenchExecute ==
    /\ m_pc = "bench_setup_done"
    /\ m_bench_result' = IF m_bench_arrays.ok
                         THEN execute_operation(m_spec.operation, m_bench_arrays.v)
                         ELSE m_bench_arrays
    /\ m_pc' = "bench_done"
    /\ UNCHANGED <<m_spec, m_bench_arrays, m_val_arrays, m_val_call>>
    /\ UNCHANGED <<benchVars, valVars, codecVars>>

\* validation.setup_arrays(spec["setup"])
MatValSetup ==
    /\ m_pc = "bench_done"
    /\ m_val_arrays' = validation_setup_arrays(m_spec.setup)
    /\ m_pc' = "val_setup_done"
    /\ UNCHANGED <<m_spec, m_bench_arrays, m_bench_result, m_val_call>>
    /\ UNCHANGED <<benchVars, valVars, codecVars>>

\* validation.run_operation(spec), up to the computed result
MatValRun ==
    /\ m_pc = "val_setup_done"
    /\ m_val_call' = validation_run_call(m_spec)
    /\ m_pc' = "done"
    /\ UNCHANGED <<m_spec, m_bench_arrays, m_bench_result, m_val_arrays>>
    /\ UNCHANGED <<benchVars, valVars, codecVars>>

NextMat == MatBenchSetup \/ MatBenchExecute \/ MatValSetup \/ MatValRun

SpecMat == InitMat /\ [][NextMat]_vars

-----------------------------------------------------------------------------
(* Spec: the benchmark process *)

MatIdle ==
    /\ m_spec = [setup |-> <<>>, operation |-> ""]
    /\ m_pc = "idle"
    /\ m_bench_arrays = Unset
    /\ m_bench_result = Unset
    /\ m_val_arrays = Unset
    /\ m_val_call = Unset

Init == BenchInit /\ MatIdle /\ ValIdle /\ CodecIdle
Next ==
    \/ MainRead \/ RunSetup \/ Warmup \/ CalibrateEnter \/ CalibrateRound
    \/ CalibrateReturn \/ Sample \/ Reduce \/ Progress \/ MainEmit
Spec == Init /\ [][Next]_vars

-----------------------------------------------------------------------------
(* SpecCal: calibrate_ops_per_sample(operation, arrays, target_time_ms)     *)
(* called on its own, with every target of TargetInputs, under timers that  *)
(* measure whole milliseconds and timers whose cost per invocation is a     *)
(* fraction of a millisecond.                                               *)

TargetInputs == {0, 1, 3, 50, 100, 1000, 100000000, 178203806}
CalSpec == BenchSpec("add_small", "add", <<ArrA, ArrB>>, 1)

InitCal ==
    /\ stdin = [isdict |-> FALSE, doc |-> <<CalSpec>>]
    /\ timer \in {FixedCost(c) : c \in CostInputs} \cup {FreeTimer, WideTimer}
                \cup {FineCost(c) : c \in FineCostInputs}
    /\ pc = "calibrate"
    /\ MIN_SAMPLE_TIME_MS = DEFAULT_MIN_SAMPLE_TIME_MS
    /\ TARGET_SAMPLES = DEFAULT_TARGET_SAMPLES
    /\ specs = <<CalSpec>>
    /\ spec_index = 1
    /\ results = <<>>
    /\ stdout = <<>>
    /\ stderr = <<>>
    /\ exit_status = -1
    /\ spec_name = CalSpec["name"]
    /\ run_arrays = setup_arrays(CalSpec["setup"], CalSpec["operation"])
    /\ warmup_done = CalSpec["warmup"]
    /\ target_time_ms \in TargetInputs
    /\ cal_ops_per_sample = Big(1)
    /\ ops_per_sample = 0
    /\ calibration_runs = 0
    /\ sample_times = <<>>
    /\ total_ops = 0
    /\ cal_rounds = 0
    /\ cal_round_ops = <<>>
    /\ cal_returned = 0
    /\ region_ops = <<>>
    /\ cal_elapsed_ms = NoElapsed
    /\ phase_log = <<>>
    /\ invoked_with = {}
    /\ MatIdle /\ ValIdle /\ CodecIdle

NextCal == CalibrateRound \/ CalibrateReturn
SpecCal == InitCal /\ [][NextCal]_vars
\* The interpreter runs the function to its return: a step that can be
\* taken is eventually taken.
SpecCalFair == SpecCal /\ WF_vars(NextCal)

-----------------------------------------------------------------------------
(* SpecVal: the validation process, validation.py main *)

ValSpec(operation, setup) == [operation |-> operation, setup |-> setup]
Named(spec, name) == ("name" :> name) @@ spec
ArrZ(key) == Entry(key, [shape |-> <<2, 2>>, fill |-> "zeros"])

\* Specs whose operation returns, and the three ways a spec fails: unknown
\* operation, malformed setup, operation raising.
ValGoodSpecs ==
    {ValSpec("add", <<ArrA, ArrB>>),
     ValSpec("mod", <<ArrA, ArrZ("b")>>),
     ValSpec("floor_divide", <<ArrA, ArrZ("b")>>),
     ValSpec("sum", <<Entry("a", [shape |-> <<3>>, fill |-> "arange"])>>),
     ValSpec("all", <<ArrA>>)}
ValBadSpecs ==
    {ValSpec("subtract", <<ArrA, ArrB>>),
     ValSpec("add", <<ArrA, Entry("b", [fill |-> "ones"])>>),
     ValSpec("add", <<ArrA>>)}
\* Each spec with a `name` and without one.
ValSpecInputs ==
    LET base == ValGoodSpecs \cup ValBadSpecs
    IN  base \cup {Named(spec, spec.operation) : spec \in base}

InitVal ==
    /\ v_stdin \in {[specs |-> b] : b \in SeqsUpTo(ValSpecInputs, MaxBatch)}
    /\ v_pc = "read"
    /\ v_specs = <<>>
    /\ v_index = 0
    /\ v_results = <<>>
    /\ v_stdout = <<>>
    /\ v_stderr = <<>>
    /\ v_exit = -1
    /\ BenchIdle /\ MatIdle /\ CodecIdle

\* main: specs = input_data["specs"]; results = []
ValRead ==
    /\ v_pc = "read"
    /\ v_specs' = v_stdin["specs"]
    /\ v_index' = 1
    /\ v_results' = <<>>
    /\ v_pc' = "loop"
    /\ UNCHANGED <<v_stdin, v_stdout, v_stderr, v_exit>>
    /\ UNCHANGED <<benchVars, matVars, codecVars>>

\* main: one iteration of the loop over specs, its except clause included
ValRunSpec ==
    /\ v_pc = "loop"
    /\ v_index <= Len(v_specs)
    /\ LET spec == v_specs[v_index]
           result == run_operation(spec)
           handled == validation_except(spec, result.e)
       IN  IF result.ok
           THEN /\ v_results' = Append(v_results, serialize_value(result.v))
                /\ v_index' = v_index + 1
                /\ UNCHANGED <<v_pc, v_stderr, v_exit>>
           ELSE IF handled.ok
           THEN /\ v_stderr' = Append(v_stderr, handled.v)
                /\ v_results' = Append(v_results, None)
                /\ v_index' = v_index + 1
                /\ UNCHANGED <<v_pc, v_exit>>
           ELSE \* the handler's own exception leaves main
                /\ v_stderr' = Append(v_stderr,
                                      [kind |-> "Traceback", text |-> handled.e,
                                       name |-> ""])
                /\ v_exit' = 1
                /\ v_pc' = "exit"
                /\ UNCHANGED <<v_results, v_index>>
    /\ UNCHANGED <<v_stdin, v_specs, v_stdout>>
    /\ UNCHANGED <<benchVars, matVars, codecVars>>

\* main: print(json.dumps(results))
ValEmit ==
    /\ v_pc = "loop"
    /\ v_index > Len(v_specs)
    /\ v_stdout' = Append(v_stdout, v_results)
    /\ v_exit' = 0
    /\ v_pc' = "exit"
    /\ UNCHANGED <<v_stdin, v_specs, v_index, v_results, v_stderr>>
    /\ UNCHANGED <<benchVars, matVars, codecVars>>

NextVal == ValRead \/ ValRunSpec \/ ValEmit
SpecVal == InitVal /\ [][NextVal]_vars

-----------------------------------------------------------------------------
(* SpecCodec: serialize_value and the comparator's decoding on value trees *)

\* Deepest nesting of containers in a value.
MaxNesting == 2

Leaves == {NaN, PosInf, NegInf, PyFloat(2), PyBool(TRUE), PyInt(3)}
\* The containers built around the values of S.
Wrap(S) ==
    {ListV(<<>>)}
    \cup {ListV(<<x>>) : x \in S}
    \cup {ListV(<<l, x>>) : l \in {NaN, PyFloat(2)}, x \in S}
    \cup {TupleV(<<x, NegInf>>) : x \in S}
    \cup {DictV([value |-> x]) : x \in S}
    \cup {DictV([shape |-> TupleV(<<PyInt(2)>>), data |-> x]) : x \in S}
RECURSIVE ValueTrees(_)
ValueTrees(depth) ==
    IF depth = 0 THEN Leaves
    ELSE ValueTrees(depth - 1) \cup Wrap(ValueTrees(depth - 1))

InitCodec ==
    /\ c_val \in ValueTrees(MaxNesting)
    /\ c_pc = "start"
    /\ c_encoded = None
    /\ c_decoded = None
    /\ BenchIdle /\ MatIdle /\ ValIdle

\* main: result = serialize_value(result)
CodecEncode ==
    /\ c_pc = "start"
    /\ c_encoded' = serialize_value(c_val)
    /\ c_pc' = "encoded"
    /\ UNCHANGED <<c_val, c_decoded>>
    /\ UNCHANGED <<benchVars, matVars, valVars>>

\* the comparator decodes the transported value
CodecDecode ==
    /\ c_pc = "encoded"
    /\ c_decoded' = decode(c_encoded)
    /\ c_pc' = "decoded"
    /\ UNCHANGED <<c_val, c_encoded>>
    /\ UNCHANGED <<benchVars, matVars, valVars>>

NextCodec == CodecEncode \/ CodecDecode
SpecCodec == InitCodec /\ [][NextCodec]_vars

-----------------------------------------------------------------------------
(* Claims about the materializers and the registries (SpecMat) *)

MatBenchSetupRan == m_pc # "start"
MatValSetupRan == m_pc \in {"val_setup_done", "done"}
MatEntries == {m_spec.setup[i] : i \in 1..Len(m_spec.setup)}
\* An entry that is materialized as an array.
ArrayEntry(e) == e.key \notin ScalarKeys \cup {"indices"}
\* v is an array of the given shape whose every element is value.
ConstantArray(v, shape, value) ==
    /\ v.t = "ndarray"
    /\ v.shape = shape
    /\ ~v.random
    /\ Len(v.data) = Prod(shape)
    /\ \A i \in 1..Len(v.data) : v.data[i] = value
\* The entry carries a `value`, a scalar as the format types it.
HasValue(e) == "value" \in DOMAIN e.config /\ e.config["value"] # None
\* In environment r every array entry that has `value` is constant at it.
ValueWins(r) ==
    r.ok => \A e \in MatEntries :
                (ArrayEntry(e) /\ HasValue(e))
                => /\ e.key \in DOMAIN r.v
                   /\ ConstantArray(r.v[e.key], e.config["shape"], e.config["value"])

\* C6: in both materializers an array entry with `value` present (a scalar)
\* becomes an array of the entry's shape whose every element equals `value`,
\* whatever `fill` says; `fill` decides only when `value` is absent.
C6_ValueBeforeFill == ValueWins(m_bench_arrays) /\ ValueWins(m_val_arrays)

\* Both materializers have returned an environment for a setup whose array
\* entry carries value 7 next to fill "ones".
C6_Witness ==
    /\ m_pc = "done"
    /\ m_bench_arrays.ok /\ m_val_arrays.ok
    /\ \E e \in MatEntries :
          /\ ArrayEntry(e)
          /\ {"value", "fill", "shape"} \subseteq DOMAIN e.config
          /\ e.config["value"] = Scalar(7) /\ e.config["fill"] = "ones"
          /\ e.config["shape"] = <<2, 3>>

\* The value the format gives a reserved scalar key.
ScalarOrTuple(shape) == IF Len(shape) = 1 THEN Scalar(shape[1]) ELSE TupleV(shape)
ReservedAsClaimed(r) ==
    r.ok => \A e \in MatEntries :
                e.key \in ScalarKeys
                => /\ e.key \in DOMAIN r.v
                   /\ r.v[e.key] = ScalarOrTuple(e.config["shape"])

\* C7: in both materializers a reserved key (n, axis, shape, new_shape,
\* fill_value, target_shape) is materialized as the scalar shape[0] when
\* `shape` has exactly one element and as the tuple of all its integers
\* otherwise.
C7_ReservedScalarOrTuple ==
    ReservedAsClaimed(m_bench_arrays) /\ ReservedAsClaimed(m_val_arrays)

\* The setup's malformations, as C8 lists them.
MissingShape(e) == "shape" \notin DOMAIN e.config
EmptyShape(e) == "shape" \in DOMAIN e.config /\ e.config["shape"] = <<>>
BadDtype(e) == "dtype" \in DOMAIN e.config /\ e.config["dtype"] \notin SupportedDtypes
\* A setup entry as the format types it: a shape of at least one extent, none
\* negative, a dtype NumPy resolves, a value that is a number when present.
WellFormedEntry(e) ==
    /\ ~MissingShape(e) /\ ~EmptyShape(e) /\ ~BadDtype(e)
    /\ \A i \in 1..Len(e.config["shape"]) : e.config["shape"][i] >= 0
    /\ "value" \in DOMAIN e.config => e.config["value"] # None

FailsAsClaimed(ran, r) ==
    ran => /\ (\E e \in MatEntries :
                  ArrayEntry(e) /\ (MissingShape(e) \/ EmptyShape(e) \/ BadDtype(e)))
              => ~r.ok
           /\ (\A e \in MatEntries : WellFormedEntry(e)) => r.ok

Constructor(e, path) ==
    LET fill == DictGet(e.config, "fill", "zeros")
    IN  IF IF path = "benchmark" THEN "value" \in DOMAIN e.config ELSE HasValue(e)
        THEN "full"
        ELSE IF fill \in {"zeros", "ones", "arange"} THEN fill
        ELSE IF fill = "random"
        THEN (IF path = "benchmark" THEN "random" ELSE "arange")
        ELSE "none"
BuildsArray(e, path) == ArrayEntry(e) /\ Constructor(e, path) # "none"
\* The shape has a negative extent, and more than the one extent -1 that
\* reshape infers.
SomeNegative(shape) == \E i \in 1..Len(shape) : shape[i] < 0
NotInferable(shape) ==
    \/ \E i \in 1..Len(shape) : shape[i] < -1
    \/ \E i, j \in 1..Len(shape) : i # j /\ shape[i] = -1 /\ shape[j] = -1
\* The entry makes the path's constructor raise.
ConstructorRaises(e, path) ==
    LET shape == e.config["shape"]
        dtype == DictGet(e.config, "dtype", "float64")
        by == Constructor(e, path)
    IN  /\ BuildsArray(e, path)
        /\ \/ BadDtype(e)
           \/ by \in {"full", "zeros", "ones", "random"} /\ SomeNegative(shape)
           \/ by = "arange" /\ NotInferable(shape)
           \/ by = "random" /\ shape = <<>>
           \/ by = "full" /\ e.config["value"] = None /\ dtype \in {"int32", "int64"}
\* The entries each materializer rejects.
BenchRejects(e) == MissingShape(e) \/ ConstructorRaises(e, "benchmark")
ValRejects(e) ==
    \/ MissingShape(e)
    \/ e.key \in ScalarKeys /\ EmptyShape(e)
    \/ ConstructorRaises(e, "validation")
\* An array entry with no dimensions that the materializer accepts comes out
\* as a 0-dimensional array of one element.
ZeroDimArrays(r, path) ==
    r.ok => \A e \in MatEntries :
                (BuildsArray(e, path) /\ EmptyShape(e))
                => /\ e.key \in DOMAIN r.v
                   /\ r.v[e.key].t = "ndarray"
                   /\ r.v[e.key].shape = <<>>
                   /\ Len(r.v[e.key].data) = 1

UnknownTo(result) == result = Raise("ValueError")

\* C10: validation materializes the environment the benchmark materializes,
\* knows exactly the operation identifiers the benchmark knows, and computes
\* the same call on the environment for every identifier known to both.
C10_ValidationReusesBenchmark ==
    m_pc = "done" =>
        /\ m_val_arrays = m_bench_arrays
        /\ (m_bench_arrays.ok /\ m_val_arrays.ok)
           => /\ UnknownTo(m_bench_result) <=> UnknownTo(m_val_call)
              /\ (~UnknownTo(m_bench_result) /\ ~UnknownTo(m_val_call))
                 => m_val_call = m_bench_result


-----------------------------------------------------------------------------
(* Claims about the benchmark process (Spec) *)

\* The config object of the batch document, empty when there is none.
StdinConfig ==
    IF stdin.isdict /\ "config" \in DOMAIN stdin.doc
    THEN stdin.doc["config"] ELSE EmptyDict
\* The values the batch document asks for.
ConfiguredMinSampleTimeMs == DictGet(StdinConfig, "minSampleTimeMs", 100)
ConfiguredTargetSamples == DictGet(StdinConfig, "targetSamples", 5)
StdinSpecs == IF stdin.isdict THEN stdin.doc["specs"] ELSE stdin.doc

ErrorLogged == \E k \in 1..Len(stderr) : stderr[k].kind = "Error"
\* The spec cannot be benchmarked under any timing: its setup is malformed,
\* its operation unknown, or its operation raises on its environment.
CannotRun(spec) ==
    LET env == setup_arrays(spec["setup"], spec["operation"])
    IN  ~env.ok \/ ~execute_operation(spec["operation"], env.v).ok

\* C2: the result channel carries the result document exactly when every spec
\* of the batch completed without error; the document is written once, after
\* the last spec, with one report per spec in input order.  When any spec
\* fails nothing is written, earlier reports included, and the exit status
\* is non-zero.
C2_DocumentAllOrNothing ==
    /\ Len(stdout) <= 1
    /\ stdout # <<>> =>
          /\ pc = "exit" /\ exit_status = 0
          /\ spec_index = Len(StdinSpecs) + 1
          /\ stdout[1] = results
          /\ Len(stdout[1]) = Len(StdinSpecs)
          /\ \A k \in 1..Len(StdinSpecs) : stdout[1][k].name = StdinSpecs[k]["name"]
    /\ pc = "exit" =>
          /\ (stdout # <<>>) <=> ~ErrorLogged
          /\ ErrorLogged => (stdout = <<>> /\ exit_status = 1)
          /\ (\E k \in 1..Len(StdinSpecs) : CannotRun(StdinSpecs[k]))
             => (stdout = <<>> /\ exit_status = 1)
          /\ ( /\ \A k \in 1..Len(StdinSpecs) : ~CannotRun(StdinSpecs[k])
               /\ timer.kind = "fixed_cost" /\ timer.c.m # <<>>
               /\ ConfiguredTargetSamples > 0 )
             => Len(stdout) = 1

\* The batch ended on a failing second spec after the first spec's report
\* had been gathered.
C2_Witness ==
    /\ pc = "exit" /\ exit_status = 1
    /\ Len(results) = 1 /\ spec_index = 2
    /\ stdout = <<>>

\* The spec whose report was just appended.
Reported == pc = "progress"
LastReport == results[Len(results)]

\* C3: a spec that carries `iterations` is run without calibration,
\* in exactly `iterations` timed regions of one invocation each.
C3_LegacyFixedIterations ==
    (Reported /\ "iterations" \in DOMAIN specs[spec_index])
    => /\ cal_rounds = 0
       /\ region_ops = [k \in 1..specs[spec_index]["iterations"] |-> 1]

\* C4: every calibration compares its rounds against config.minSampleTimeMs
\* when the batch document gives it, and against 100 otherwise.
C4_ConfiguredTargetTime ==
    pc \in {"calibrate", "calibrate_exit"}
    => target_time_ms = ConfiguredMinSampleTimeMs

\* C5: a reported spec was sampled in exactly targetSamples timed regions
\* (config.targetSamples, else 5) of exactly the calibrated ops_per_sample
\* invocations each; total_samples = targetSamples and total_ops =
\* ops_per_sample * targetSamples, with no warmup or calibration invocation
\* counted.
C5_SamplingRegions ==
    /\ pc = "sample" =>
          /\ Len(region_ops) <= ConfiguredTargetSamples
          /\ \A k \in 1..Len(region_ops) : region_ops[k] = cal_returned
    /\ Reported =>
          /\ region_ops = [k \in 1..ConfiguredTargetSamples |-> cal_returned]
          /\ LastReport.total_samples = ConfiguredTargetSamples
          /\ LastReport.total_ops = cal_returned * ConfiguredTargetSamples

\* A spec was reported after a warmup invocation and calibration rounds of
\* more invocations than one sampling region, with 2 configured samples.
C5_Witness ==
    /\ Reported
    /\ ConfiguredTargetSamples = 2
    /\ warmup_done >= 1
    /\ cal_rounds >= 2
    /\ cal_returned >= 2
    /\ LastReport.total_ops = 2 * cal_returned

-----------------------------------------------------------------------------
(* Claims about the validation process (SpecVal) *)

\* What a spec produces when it is run alone: its encoded result, or the
\* null marker when it fails.
ProducedAlone(spec) ==
    IF run_operation(spec).ok THEN serialize_value(run_operation(spec).v) ELSE None

\* C1: a validation batch of N specs ends with one output document of exactly
\* N entries in input order; the entry of a failing spec is null and every
\* other entry is what its spec produces when run alone: a failure never
\* aborts the batch or changes another entry.
C1_ValidationBatchAligned ==
    v_pc = "exit"
    => /\ Len(v_stdout) = 1
       /\ Len(v_stdout[1]) = Len(v_stdin["specs"])
       /\ \A k \in 1..Len(v_stdin["specs"]) :
             v_stdout[1][k] = ProducedAlone(v_stdin["specs"][k])

-----------------------------------------------------------------------------
(* Claims about the Result Codec (SpecCodec) *)

RECURSIVE EncodedLeafwise(_, _)
\* w is v with exactly the NaN, +Infinity and -Infinity leaves replaced by
\* their sentinels: same mappings with the same keys, same sequences with
\* the same lengths, every other leaf the same.
EncodedLeafwise(v, w) ==
    IF v.t = "dict"
    THEN /\ w.t = "dict"
         /\ DOMAIN w.entries = DOMAIN v.entries
         /\ \A k \in DOMAIN v.entries : EncodedLeafwise(v.entries[k], w.entries[k])
    ELSE IF v.t \in {"list", "tuple"}
    THEN /\ w.t = "list"
         /\ Len(w.v) = Len(v.v)
         /\ \A i \in 1..Len(v.v) : EncodedLeafwise(v.v[i], w.v[i])
    ELSE IF v = NaN THEN w = PyStr("__NaN__")
    ELSE IF v = PosInf THEN w = PyStr("__Infinity__")
    ELSE IF v = NegInf THEN w = PyStr("__-Infinity__")
    ELSE w = v

RECURSIVE SameValue(_, _)
\* Equality of two values as the transport sees them: a tuple and a list of
\* the same items are the same sequence, NaN is compared by being NaN.
SameValue(v, w) ==
    IF v.t = "dict"
    THEN /\ w.t = "dict"
         /\ DOMAIN w.entries = DOMAIN v.entries
         /\ \A k \in DOMAIN v.entries : SameValue(v.entries[k], w.entries[k])
    ELSE IF v.t \in {"list", "tuple"}
    THEN /\ w.t \in {"list", "tuple"}
         /\ Len(w.v) = Len(v.v)
         /\ \A i \in 1..Len(v.v) : SameValue(v.v[i], w.v[i])
    ELSE IF v.t = "float" /\ v.cls = "nan" THEN w.t = "float" /\ w.cls = "nan"
    ELSE w = v

RECURSIVE Holds(_, _)
\* Some leaf of v is the leaf l.
Holds(v, l) ==
    IF v.t = "dict" THEN \E k \in DOMAIN v.entries : Holds(v.entries[k], l)
    ELSE IF v.t \in {"list", "tuple"} THEN \E i \in 1..Len(v.v) : Holds(v.v[i], l)
    ELSE v = l

\* C9: serialize_value replaces exactly the NaN, +Infinity and -Infinity
\* leaves of a value by "__NaN__", "__Infinity__" and "__-Infinity__" at
\* every nesting depth, leaves every other leaf and the nesting structure
\* unchanged, and decoding the three sentinels gives the original value back.
C9_CodecRoundTrip ==
    /\ c_pc \in {"encoded", "decoded"} => EncodedLeafwise(c_val, c_encoded)
    /\ c_pc = "decoded" => SameValue(c_val, c_decoded)

\* A mapping that holds NaN and -Infinity inside a nested sequence, next to
\* a tuple of an ordinary number, has made the round trip.
C9_Witness ==
    /\ c_pc = "decoded"
    /\ c_val.t = "dict"
    /\ Holds(c_val, NaN) /\ Holds(c_val, NegInf) /\ Holds(c_val, PyInt(2))
    /\ Holds(c_encoded, PyStr("__NaN__")) /\ Holds(c_encoded, PyStr("__-Infinity__"))
    /\ Holds(c_encoded, PyInt(2))
    /\ c_decoded # c_encoded

-----------------------------------------------------------------------------
(* Claims about calibrate_ops_per_sample (SpecCal) *)

\* calibrate_ops_per_sample has returned.
CalReturned == pc = "sample"

\* C11: for every sequence of elapsed-time measurements and every target
\* time, calibrate_ops_per_sample returns an integer opsPerSample with
\* 1 <= opsPerSample <= 100000.
C11_ReturnedInRange ==
    CalReturned =>
        /\ cal_returned \in Int
        /\ cal_returned >= 1
        /\ cal_returned <= 100000
        /\ ops_per_sample = cal_returned

\* Ten rounds that all measured less than a tenth of the target were run,
\* the count reached 10^10 and the clamp cut it down to 100000.
C11_Witness ==
    /\ CalReturned
    /\ cal_rounds = 10
    /\ cal_round_ops = Big(1000000000)
    /\ cal_ops_per_sample = BigMul(Big(100000), Big(100000))
    /\ cal_returned = 100000

\* The round budget is used up: ten rounds ended in a multiply step.
BudgetExhausted == pc = "calibrate" /\ calibration_runs = 10

\* C12: calibration always terminates; it runs at least 1 and at most 10
\* timed rounds, and when all 10 rounds end in a multiply-by-10 or
\* multiply-by-2 step the next thing it does is return the last computed
\* count, clamped, without an 11th round.
C12_BoundedRounds ==
    /\ [](/\ cal_rounds <= 10
          /\ (CalReturned => cal_rounds >= 1)
          /\ (BudgetExhausted => cal_rounds = 10))
    /\ [][BudgetExhausted =>
            /\ CalReturned'
            /\ cal_rounds' = cal_rounds
            /\ cal_returned' = IF BigLess(cal_ops_per_sample, Big(100000))
                               THEN ToInt(cal_ops_per_sample)
                               ELSE 100000]_vars
    /\ <>CalReturned

\* Ten rounds under a fixed cost per invocation all ended in a multiply
\* step (seven times ten, three times two) and the count was returned.
C12_Witness ==
    /\ CalReturned
    /\ timer = FixedCost(1)
    /\ calibration_runs = 10
    /\ cal_rounds = 10
    /\ cal_round_ops = Big(40000000)
    /\ cal_returned = 100000

\* A timed round: CalibrateRound measured the region of ops_per_sample
\* invocations.
RoundTaken == pc = "calibrate" /\ cal_rounds' = cal_rounds + 1
RoundStops == pc' = "calibrate_exit" /\ calibration_runs' = calibration_runs
RoundContinues == pc' = "calibrate" /\ calibration_runs' = calibration_runs + 1
\* a <= b
BigLeq(a, b) == ~BigLess(b, a)
\* m = k * n
Multiplied(m, n, k) == BigDivMod(m, Big(k)) = [q |-> n, r |-> <<>>]
\* ceil(n * T / e) in exact arithmetic, e = e.m * 2^-e.s
ExactCeil(n, T, e) ==
    Then(BigDivMod(Shift(BigTimes(n, T), e.s), e.m), LAMBDA d :
         IF d.r = <<>> THEN d.q ELSE BigAdd(d.q, <<1>>))
\* e < T / k in exact arithmetic
ExactlyLess(e, T, k) == BigLess(BigTimes(e.m, k), Shift(Big(T), e.s))
\* n * T is below 2^31 and e is a whole number of milliseconds
SmallWhole(n, T, e) == e.s = 0 /\ Len(BigTimes(n, T)) <= 31

\* C13 (as stated): a calibration round with count n, elapsed e and target
\* T takes exactly one of four steps, tested in order: e >= T stops with n
\* unchanged; e < T/10 makes n 10n and continues; e < T/2 makes n 2n and
\* continues; otherwise n becomes max(ceil(n*T/e), n+1) and calibration
\* stops, the new n being greater than n and at most 2n.
C13_ExactCeiling ==
    [][RoundTaken =>
        LET n == cal_ops_per_sample
            e == cal_elapsed_ms'
            T == target_time_ms
            m == cal_ops_per_sample'
        IN  IF AtLeast(e, T) THEN m = n /\ RoundStops
            ELSE IF ExactlyLess(e, T, 10) THEN Multiplied(m, n, 10) /\ RoundContinues
            ELSE IF ExactlyLess(e, T, 2) THEN Multiplied(m, n, 2) /\ RoundContinues
            ELSE /\ RoundStops
                 /\ BigLess(n, m)
                 /\ BigLeq(m, BigTimes(n, 2))
                 /\ m = BigMax(ExactCeil(n, T, e), BigAdd(n, <<1>>))]_vars

\* No float64 lies strictly between e and T / k: the float64 after e,
\* e + 2^(Len(e.m) - 53 - e.s), is at least T / k.
NoFloatBetween(e, T, k) ==
    BigLeq(Shift(Big(T), e.s + 53 - Len(e.m)),
           BigTimes(BigAdd(Shift(e.m, 53 - Len(e.m)), <<1>>), k))

\* C13 (amended): the four steps are taken as stated, with two effects of
\* float64 arithmetic. T/10 is the float64 quotient, so an e that is the
\* float64 next below T/10 fails the first test and n becomes 2n. In the
\* last step n becomes max(c, n+1) with c the ceiling of the float64
\* quotient (n*T)/e: c is the exact ceiling when n*T < 2^31 and e is a whole
\* number, and is never more than one away from it; the new n is greater
\* than n and at most 2n.
C13_FourSteps ==
    [][RoundTaken =>
        LET n == cal_ops_per_sample
            e == cal_elapsed_ms'
            T == target_time_ms
            m == cal_ops_per_sample'
            x == ExactCeil(n, T, e)
            n1 == BigAdd(n, <<1>>)
        IN  IF AtLeast(e, T) THEN m = n /\ RoundStops
            ELSE IF ExactlyLess(e, T, 10)
            THEN \/ Multiplied(m, n, 10) /\ RoundContinues
                 \/ /\ e.m # <<>>
                    /\ NoFloatBetween(e, T, 10)
                    /\ Multiplied(m, n, 2) /\ RoundContinues
            ELSE IF ExactlyLess(e, T, 2) THEN Multiplied(m, n, 2) /\ RoundContinues
            ELSE /\ RoundStops
                 /\ BigLess(n, m)
                 /\ BigLeq(m, BigTimes(n, 2))
                 /\ (SmallWhole(n, T, e) => m = BigMax(x, n1))
                 /\ \/ m = n1 /\ BigLeq(x, BigAdd(n1, <<1>>))
                    \/ /\ BigLess(n1, m)
                       /\ BigLeq(m, BigAdd(x, <<1>>))
                       /\ BigLeq(x, BigAdd(m, <<1>>))]_vars

\* Under 9.09090909090909 ms per invocation and a 100 ms target the first
\* round multiplied by ten and the second, of 10 invocations in
\* 90.9090909090909 ms, extrapolated to 11: the float64 quotient of 1000 by
\* the elapsed time is 11.0, the exact quotient is above 11.
C13_Witness ==
    /\ pc = "calibrate_exit"
    /\ timer = FineCost(Dyadic(2383127, 292838679, 48))
    /\ target_time_ms = 100
    /\ cal_rounds = 2
    /\ cal_round_ops = Big(10)
    /\ cal_ops_per_sample = Big(11)
    /\ ExactCeil(cal_round_ops, target_time_ms, cal_elapsed_ms) = Big(12)

\* The synthetic operation: every invocation costs timer.c > 0 ms.
FixedCostRun == timer.kind = "fixed_cost" /\ timer.c.m # <<>> /\ target_time_ms > 0
\* n * c >= T in exact arithmetic, c = c.m * 2^-c.s
MeetsTarget(n, c, T) == BigLeq(Shift(Big(T), c.s), BigTimes(c.m, n))

\* C14 (as stated): with a fixed per-invocation cost c > 0 and a target
\* T > 0 the returned count is a function of c and T alone (two runs return
\* the same count), and the returned n satisfies n * c >= T or n = 100000.
C14_MeetsTarget ==
    (CalReturned /\ FixedCostRun) =>
        /\ cal_returned = calibrate_ops_per_sample(timer.c, target_time_ms)
        /\ \/ MeetsTarget(cal_returned, timer.c, target_time_ms)
           \/ cal_returned = 100000

\* C14 (amended): with a fixed per-invocation cost c > 0 and a target T > 0
\* the returned count is a function of c and T alone, and the returned n
\* satisfies (n + 1) * c >= T or n = 100000; n * c >= T holds when c is a
\* whole number of milliseconds.
C14_FixedCostMeetsTarget ==
    (CalReturned /\ FixedCostRun) =>
        /\ cal_returned = calibrate_ops_per_sample(timer.c, target_time_ms)
        /\ \/ MeetsTarget(cal_returned + 1, timer.c, target_time_ms)
           \/ cal_returned = 100000
        /\ timer.c.s = 0 =>
              \/ MeetsTarget(cal_returned, timer.c, target_time_ms)
              \/ cal_returned = 100000

\* 9.09090909090909 ms per invocation, target 100 ms: 11 invocations were
\* returned, which take less than 100 ms.
C14_Witness ==
    /\ CalReturned
    /\ timer = FineCost(Dyadic(2383127, 292838679, 48))
    /\ target_time_ms = 100
    /\ cal_returned = 11
    /\ ~MeetsTarget(cal_returned, timer.c, target_time_ms)

(* Claims about the order of the phases (Spec) *)

PhaseRank(phase) ==
    CASE phase = "materialize" -> 1
      [] phase = "warmup" -> 2
      [] phase = "calibrate" -> 3
      [] phase = "sample" -> 4
\* The positions of run_benchmark after the warmup loop of the current spec.
PastWarmup == pc \in {"calibrate", "calibrate_exit", "sample", "progress"}
\* The positions of run_benchmark between materialization and the report.
InRun == pc \in {"warmup", "calibrate", "calibrate_exit", "sample"}

\* C15: specs are processed one after another in input order, each through
\* materialize (once), warmup (exactly `warmup` invocations, none for a
\* negative `warmup`), calibrate, sample in that order; nothing of spec k+1 happens before the last sample
\* of spec k, and the environment materialized for a spec is the one passed
\* to every warmup, calibration and sampling invocation of that spec.
C15_PhasesInOrder ==
    /\ [](/\ \A i, j \in 1..Len(phase_log) :
                i < j =>
                    \/ phase_log[i].spec < phase_log[j].spec
                    \/ /\ phase_log[i].spec = phase_log[j].spec
                       /\ PhaseRank(phase_log[i].phase) < PhaseRank(phase_log[j].phase)
          /\ \A i \in 2..Len(phase_log) :
                phase_log[i].phase = "materialize" =>
                    /\ phase_log[i - 1] = [spec |-> phase_log[i].spec - 1,
                                           phase |-> "sample"]
                    /\ Len(results) >= phase_log[i].spec - 1
          /\ (phase_log # <<>> =>
                phase_log[1] = [spec |-> 1, phase |-> "materialize"])
          /\ (InRun => /\ phase_log # <<>>
                       /\ phase_log[Len(phase_log)].spec = spec_index)
          /\ (PastWarmup =>
                warmup_done = IF specs[spec_index]["warmup"] >= 0
                              THEN specs[spec_index]["warmup"] ELSE 0)
          /\ (InRun => invoked_with \subseteq {run_arrays.v}))
    /\ [][InRun => run_arrays' = run_arrays]_vars

\* The second spec of a batch is being sampled: both specs went through
\* the four phases, the first with one warmup invocation.
C15_Witness ==
    /\ pc = "sample"
    /\ spec_index = 2
    /\ Len(results) = 1
    /\ specs[1]["warmup"] = 1
    /\ Len(sample_times) = 2
    /\ invoked_with = {run_arrays.v}
    /\ phase_log = <<[spec |-> 1, phase |-> "materialize"],
                     [spec |-> 1, phase |-> "warmup"],
                     [spec |-> 1, phase |-> "calibrate"],
                     [spec |-> 1, phase |-> "sample"],
                     [spec |-> 2, phase |-> "materialize"],
                     [spec |-> 2, phase |-> "warmup"],
                     [spec |-> 2, phase |-> "calibrate"],
                     [spec |-> 2, phase |-> "sample"]>>

\* C16: no timed calibration round executes more than 100000 invocations
\* of the operation, whatever the rounds measure.
C16_RoundWithinBound ==
    cal_rounds >= 1 => ~BigLess(Big(100000), cal_round_ops)

(* Claims about dropped setup entries, zero timings and nameless specs *)

\* Every key of the setup is a key of the environment r.
EveryKeyKept(r) == r.ok => \A e \in MatEntries : e.key \in DOMAIN r.v

\* C17: whenever a materializer returns without error, every key of the
\* setup mapping is a key of the returned environment, for any fill string.
C17_NoEntryDropped == EveryKeyKept(m_bench_arrays) /\ EveryKeyKept(m_val_arrays)

\* Every spec of the batch materializes and its operation succeeds, and at
\* least one sampling region is configured.
TimingsOnly ==
    /\ \A k \in 1..Len(specs) : ~CannotRun(specs[k])
    /\ TARGET_SAMPLES >= 1

\* C18: for a spec whose every invocation succeeds run_benchmark returns a
\* report with ops_per_sec = 1000 / mean_ms for every set of measured
\* elapsed times, all regions measuring 0 included; measured timings alone
\* never make the batch abort.
C18_ReportForEveryTiming ==
    /\ Reported =>
          /\ LastReport.ops_per_sec.num = 1000 * LastReport.mean_ms.den
          /\ LastReport.ops_per_sec.den = LastReport.mean_ms.num
    /\ (pc = "exit" /\ TimingsOnly) =>
          /\ exit_status = 0
          /\ ~ErrorLogged
          /\ Len(results) = Len(specs)

\* Spec k of the validation batch has no `name` and its operation fails.
NamelessFailing(k) ==
    /\ "name" \notin DOMAIN v_specs[k]
    /\ ~run_operation(v_specs[k]).ok

\* C19: in validation mode a failing spec without a `name` is recorded as
\* null at its position, the remaining specs are processed and the output
\* document is emitted: handling the failure never leaves the batch loop.
C19_NamelessFailureRecorded ==
    \A k \in 1..Len(v_specs) :
        NamelessFailing(k) =>
            /\ (v_index > k => Len(v_results) >= k /\ v_results[k] = None)
            /\ (v_pc = "exit" =>
                  /\ v_index > Len(v_specs)
                  /\ v_exit = 0
                  /\ Len(v_stdout) = 1)
====
